---- MODULE Spec2Model ----
(***************************************************************************)
(* Model of the TemplateTacomReact front end: the response normalisation   *)
(* of the arquivo services, the record decoding of mapToArquivo, the       *)
(* period conversion helpers and the useUploadedFiles hook.                *)
(***************************************************************************)
EXTENDS Integers, Sequences, FiniteSets, TLC

(***************************************************************************)
(* Bounds of the model.                                                    *)
(***************************************************************************)
MaxLen == 2
MaxKeys == 2
MaxStr == 3
MaxReq == 3
MaxPage == 3
MaxSubmit == 2

(***************************************************************************)
(* JavaScript values.  Every value is a record of the same shape:          *)
(*   t    : the kind of the value                                          *)
(*   n    : the number (kind "number") or 0/1 (kind "boolean")             *)
(*   s    : the characters of a string (kind "string")                     *)
(*   keys : the own keys of an object, in insertion order                  *)
(*   kids : the elements of an array, or the values of an object's keys    *)
(* A string is the sequence of its characters.                             *)
(***************************************************************************)
JV(t, n, s, keys, kids) == [t |-> t, n |-> n, s |-> s, keys |-> keys, kids |-> kids]

Undef == JV("undefined", 0, <<>>, <<>>, <<>>)
Null == JV("null", 0, <<>>, <<>>, <<>>)
NaN == JV("NaN", 0, <<>>, <<>>, <<>>)
Bool(b) == JV("boolean", IF b THEN 1 ELSE 0, <<>>, <<>>, <<>>)
Num(n) == JV("number", n, <<>>, <<>>, <<>>)
Str(s) == JV("string", 0, s, <<>>, <<>>)
Arr(kids) == JV("array", 0, <<>>, <<>>, kids)
Obj(keys, kids) == JV("object", 0, <<>>, keys, kids)

Digits == <<"0", "1", "2", "3", "4", "5", "6", "7", "8", "9">>

IsDigit(c) == \E i \in 1..10 : Digits[i] = c

DigitVal(c) == (CHOOSE i \in 1..10 : Digits[i] = c) - 1

\* String(n) of an integer n: its decimal digits, with a leading minus sign.
RECURSIVE NatToStr(_)
NatToStr(n) == IF n < 10 THEN <<Digits[n + 1]>> ELSE NatToStr(n \div 10) \o <<Digits[(n % 10) + 1]>>

NumToStr(n) == IF n < 0 THEN <<"-">> \o NatToStr(0 - n) ELSE NatToStr(n)

\* String.prototype.toLowerCase
LowerChar(c) ==
  CASE c = "A" -> "a" []
       c = "B" -> "b" []
       c = "C" -> "c" []
       c = "D" -> "d" []
       c = "E" -> "e" []
       c = "F" -> "f" []
       c = "G" -> "g" []
       c = "H" -> "h" []
       c = "I" -> "i" []
       c = "J" -> "j" []
       c = "K" -> "k" []
       c = "L" -> "l" []
       c = "M" -> "m" []
       c = "N" -> "n" []
       c = "O" -> "o" []
       c = "P" -> "p" []
       c = "Q" -> "q" []
       c = "R" -> "r" []
       c = "S" -> "s" []
       c = "T" -> "t" []
       c = "U" -> "u" []
       c = "V" -> "v" []
       c = "W" -> "w" []
       c = "X" -> "x" []
       c = "Y" -> "y" []
       c = "Z" -> "z" []
       OTHER -> c

ToLowerCase(s) == [i \in 1..Len(s) |-> LowerChar(s[i])]

\* Array.isArray(v)
IsArray(v) == v.t = "array"

\* v && typeof v === "object"
IsObjectLike(v) == v.t \in {"array", "object"}

\* v == null (null or undefined)
IsNullish(v) == v.t \in {"null", "undefined"}

\* a ?? b
Coalesce(a, b) == IF IsNullish(a) THEN b ELSE a

\* The truth value of v in a condition or under ||
Truthy(v) ==
  ~(v.t \in {"undefined", "null", "NaN"} \/ (v.t \in {"boolean", "number"} /\ v.n = 0)
      \/ (v.t = "string" /\ v.s = <<>>))

\* Object.keys(v): the own keys in insertion order; the indices of an array.
ObjectKeys(v) ==
  IF v.t = "object" THEN v.keys
  ELSE IF v.t = "array" THEN [i \in 1..Len(v.kids) |-> NatToStr(i - 1)]
  ELSE <<>>

KeyIndex(v, k) == {i \in 1..Len(ObjectKeys(v)) : ObjectKeys(v)[i] = k}

\* k in v, for the keys the program looks up (none is inherited)
HasKey(v, k) == KeyIndex(v, k) # {}

\* The property names the program reads or writes, as texts.
K ==
  [items |-> <<"i", "t", "e", "m", "s">>,
   arquivo |-> <<"a", "r", "q", "u", "i", "v", "o">>,
   data |-> <<"d", "a", "t", "a">>,
   result |-> <<"r", "e", "s", "u", "l", "t">>,
   total |-> <<"t", "o", "t", "a", "l">>,
   page |-> <<"p", "a", "g", "e">>,
   pageSize |-> <<"p", "a", "g", "e", "S", "i", "z", "e">>,
   value |-> <<"v", "a", "l", "u", "e">>,
   toString |-> <<"t", "o", "S", "t", "r", "i", "n", "g">>,
   xTotalCount |-> <<"x", "-", "t", "o", "t", "a", "l", "-", "c", "o", "u", "n", "t">>,
   error |-> <<"e", "r", "r", "o", "r">>,
   files |-> <<"f", "i", "l", "e", "s">>,
   NOMEARQUIVO |-> <<"N", "O", "M", "E", "A", "R", "Q", "U", "I", "V", "O">>,
   Aptos |-> <<"A", "p", "t", "o", "s">>,
   message |-> <<"m", "e", "s", "s", "a", "g", "e">>,
   id |-> <<"i", "d">>,
   inicialdia |-> <<"i", "n", "i", "c", "i", "a", "l", "d", "i", "a">>,
   inicialmes |-> <<"i", "n", "i", "c", "i", "a", "l", "m", "e", "s">>,
   inicialano |-> <<"i", "n", "i", "c", "i", "a", "l", "a", "n", "o">>,
   finaldia |-> <<"f", "i", "n", "a", "l", "d", "i", "a">>,
   finalmes |-> <<"f", "i", "n", "a", "l", "m", "e", "s">>,
   finalano |-> <<"f", "i", "n", "a", "l", "a", "n", "o">>,
   startDate |-> <<"s", "t", "a", "r", "t", "D", "a", "t", "e">>,
   endDate |-> <<"e", "n", "d", "D", "a", "t", "e">>,
   codigoarquivo |-> <<"c", "o", "d", "i", "g", "o", "a", "r", "q", "u", "i", "v", "o">>,
   codigo |-> <<"c", "o", "d", "i", "g", "o">>,
   codigoArquivo |-> <<"c", "o", "d", "i", "g", "o", "A", "r", "q", "u", "i", "v", "o">>,
   codigo_arquivo |-> <<"c", "o", "d", "i", "g", "o", "_", "a", "r", "q", "u", "i", "v", "o">>,
   CodigoArquivo |-> <<"C", "o", "d", "i", "g", "o", "A", "r", "q", "u", "i", "v", "o">>,
   nomearquivo |-> <<"n", "o", "m", "e", "a", "r", "q", "u", "i", "v", "o">>,
   file |-> <<"f", "i", "l", "e">>,
   origem |-> <<"o", "r", "i", "g", "e", "m">>,
   descricao |-> <<"d", "e", "s", "c", "r", "i", "c", "a", "o">>,
   menu |-> <<"m", "e", "n", "u">>,
   nome |-> <<"n", "o", "m", "e">>,
   enviarArquivos |-> <<"e", "n", "v", "i", "a", "r", "A", "r", "q", "u", "i", "v", "o", "s">>,
   isEnviarArquivos |-> <<"i", "s", "E", "n", "v", "i", "a", "r", "A", "r", "q", "u", "i", "v", "o", "s">>,
   enviar_arquivos |-> <<"e", "n", "v", "i", "a", "r", "_", "a", "r", "q", "u", "i", "v", "o", "s">>]

\* v[k] and v?.[k]: undefined when the key is absent or v has no properties
Get(v, k) == IF HasKey(v, k) THEN v.kids[CHOOSE i \in KeyIndex(v, k) : TRUE] ELSE Undef

Throws == <<"T", "y", "p", "e", "E", "r", "r", "o", "r">>

\* String(v).  An object whose own "toString" key hides Object.prototype.toString
\* cannot be converted (the JSON value under the key is not callable and
\* valueOf returns the object itself): the conversion throws a TypeError.
RECURSIVE JSString(_)
RECURSIVE JoinKids(_, _)
JoinKids(kids, i) ==
  IF i > Len(kids) THEN <<>>
  ELSE LET head == IF IsNullish(kids[i]) THEN <<>> ELSE JSString(kids[i])
           rest == JoinKids(kids, i + 1)
       IN IF head = Throws \/ rest = Throws THEN Throws
          ELSE IF i < Len(kids) THEN head \o <<",">> \o rest ELSE head

JSString(v) ==
  CASE v.t = "undefined" -> <<"u", "n", "d", "e", "f", "i", "n", "e", "d">>
    [] v.t = "null" -> <<"n", "u", "l", "l">>
    [] v.t = "NaN" -> <<"N", "a", "N">>
    [] v.t = "boolean" -> IF v.n = 1 THEN <<"t", "r", "u", "e">> ELSE <<"f", "a", "l", "s", "e">>
    [] v.t = "number" -> NumToStr(v.n)
    [] v.t = "string" -> v.s
    [] v.t = "array" -> JoinKids(v.kids, 1)
    [] v.t = "object" ->
         IF HasKey(v, K.toString) THEN Throws
         ELSE <<"[", "o", "b", "j", "e", "c", "t", " ", "O", "b", "j", "e", "c", "t", "]">>

\* parseInt(s, 10): an optional sign, then the longest run of digits; NaN when
\* there is no digit.
RECURSIVE DigitRun(_, _)
DigitRun(s, i) == IF i <= Len(s) /\ IsDigit(s[i]) THEN DigitRun(s, i + 1) ELSE i - 1

RECURSIVE DigitsVal(_, _, _)
DigitsVal(s, i, j) == IF j < i THEN 0 ELSE DigitsVal(s, i, j - 1) * 10 + DigitVal(s[j])

ParseInt(s) ==
  LET signed == Len(s) > 0 /\ s[1] \in {"-", "+"}
      first == IF signed THEN 2 ELSE 1
      last == DigitRun(s, first)
      mag == DigitsVal(s, first, last)
  IN IF last < first THEN NaN
     ELSE Num(IF signed /\ s[1] = "-" THEN 0 - mag ELSE mag)

(***************************************************************************)
(* Record decoding: mapToArquivo.                                          *)
(***************************************************************************)
nomeArquivoKeys ==
  << <<"n", "o", "m", "e", "a", "r", "q", "u", "i", "v", "o">>,
     <<"n", "o", "m", "e", "_", "a", "r", "q", "u", "i", "v", "o">>,
     <<"n", "o", "m", "e", "A", "r", "q", "u", "i", "v", "o">>,
     <<"n", "o", "m", "e">> >>
quantidadeRegistroKeys ==
  << <<"q", "u", "a", "n", "t", "i", "d", "a", "d", "e", "r", "e", "g", "i", "s", "t", "r", "o">>,
     <<"q", "u", "a", "n", "t", "i", "d", "a", "d", "e", "_", "r", "e", "g", "i", "s", "t", "r", "o">>,
     <<"q", "u", "a", "n", "t", "i", "d", "a", "d", "e", "R", "e", "g", "i", "s", "t", "r", "o">>,
     <<"q", "u", "a", "n", "t", "i", "d", "a", "d", "e">> >>
aptosKeys ==
  << <<"a", "p", "t", "o", "s">> >>
semDocumentoKeys ==
  << <<"s", "e", "m", "d", "o", "c", "u", "m", "e", "n", "t", "o">>,
     <<"s", "e", "m", "_", "d", "o", "c", "u", "m", "e", "n", "t", "o">>,
     <<"s", "e", "m", "D", "o", "c", "u", "m", "e", "n", "t", "o">> >>
comCodigoSetpsKeys ==
  << <<"c", "o", "m", "c", "o", "d", "i", "g", "o", "s", "e", "t", "p", "s">>,
     <<"c", "o", "m", "_", "c", "o", "d", "i", "g", "o", "_", "s", "e", "t", "p", "s">>,
     <<"c", "o", "m", "C", "o", "d", "i", "g", "o", "S", "e", "t", "p", "s">>,
     <<"c", "o", "m", "C", "o", "d", "i", "g", "o", "s", "S", "e", "t", "p", "s">> >>
comErroKeys ==
  << <<"c", "o", "m", "e", "r", "r", "o">>,
     <<"c", "o", "m", "_", "e", "r", "r", "o">>,
     <<"c", "o", "m", "E", "r", "r", "o">>,
     <<"e", "r", "r", "o", "s">> >>

\* Object.keys(item).find((objK) => objK.toLowerCase() === k.toLowerCase()):
\* the position of the first such key, 0 when there is none.
FindKeyIgnoreCase(item, k) ==
  LET ks == ObjectKeys(item)
      hits == {i \in 1..Len(ks) : ToLowerCase(ks[i]) = ToLowerCase(k)}
  IN IF hits = {} THEN 0 ELSE CHOOSE i \in hits : \A j \in hits : i <= j

\* getVal(keys): for each alias the exact key when its value is not null,
\* then the first key equal up to case; undefined when no alias is found.
RECURSIVE getVal(_, _)
getVal(item, keys) ==
  IF keys = <<>> THEN Undef
  ELSE LET k == Head(keys)
           foundKey == FindKeyIgnoreCase(item, k)
       IN IF HasKey(item, k) /\ ~IsNullish(Get(item, k)) THEN Get(item, k)
          ELSE IF foundKey # 0 THEN Get(item, ObjectKeys(item)[foundKey])
          ELSE getVal(item, Tail(keys))

\* v.replace(/\D+/g, "")
StripNonDigits(s) == SelectSeq(s, IsDigit)

\* A toNumber that parses the string as it is, separators included.
toNumber_NoStrip(v) ==
  IF v.t \in {"number", "NaN"} THEN v
  ELSE IF v.t = "string"
       THEN LET n == ParseInt(v.s) IN IF n = NaN THEN Num(0) ELSE n
       ELSE Num(0)

toNumber(v) ==
  IF v.t \in {"number", "NaN"} THEN v
  ELSE IF v.t = "string"
       THEN LET n == ParseInt(StripNonDigits(v.s)) IN IF n = NaN THEN Num(0) ELSE n
       ELSE Num(0)

\* The result of a call: the value it returns, or a thrown exception.
Return(v) == [kind |-> "return", value |-> v]

Throw == [kind |-> "throw", value |-> <<>>]

Arquivo(nome, qtd, apt, sem, cod, err, raw) ==
  [nomeArquivo |-> nome, quantidadeRegistro |-> qtd, aptos |-> apt, semDocumento |-> sem,
   comCodigoSetps |-> cod, comErro |-> err, raw |-> raw]

mapToArquivo(item) ==
  LET nomeArquivo == JSString(Coalesce(getVal(item, nomeArquivoKeys), Str(<<>>)))
      quantidadeRegistroRaw == Coalesce(getVal(item, quantidadeRegistroKeys), Num(0))
      aptosRaw == Coalesce(getVal(item, aptosKeys), Num(0))
      semDocumentoRaw == Coalesce(getVal(item, semDocumentoKeys), Num(0))
      comCodigoSetpsRaw == Coalesce(getVal(item, comCodigoSetpsKeys), Num(0))
      comErroRaw == Coalesce(getVal(item, comErroKeys), Num(0))
  IN IF nomeArquivo = Throws THEN Throw
     ELSE Return(Arquivo(nomeArquivo, toNumber(quantidadeRegistroRaw), toNumber(aptosRaw),
                         toNumber(semDocumentoRaw), toNumber(comCodigoSetpsRaw),
                         toNumber(comErroRaw), item))

(***************************************************************************)
(* ArquivoDetailPage: getString and getNumber.                             *)
(***************************************************************************)
\* JSON.stringify(v) of a value that came from JSON.
RECURSIVE JSONStringify(_)
RECURSIVE StringifyKids(_, _)
StringifyKids(v, i) ==
  IF i > Len(v.kids) THEN <<>>
  ELSE (IF v.t = "object" THEN <<"\"">> \o v.keys[i] \o <<"\"", ":">> ELSE <<>>)
         \o JSONStringify(v.kids[i])
         \o (IF i < Len(v.kids) THEN <<",">> ELSE <<>>)
         \o StringifyKids(v, i + 1)

JSONStringify(v) ==
  CASE v.t \in {"null", "undefined", "NaN"} -> <<"n", "u", "l", "l">>
    [] v.t = "boolean" -> JSString(v)
    [] v.t = "number" -> NumToStr(v.n)
    [] v.t = "string" -> <<"\"">> \o v.s \o <<"\"">>
    [] v.t = "array" -> <<"[">> \o StringifyKids(v, 1) \o <<"]">>
    [] v.t = "object" -> <<"{">> \o StringifyKids(v, 1) \o <<"}">>

\* The text getString returns for a value that is not null.
displayText(v) ==
  IF v.t = "string" THEN v.s
  ELSE IF v.t = "number" THEN NumToStr(v.n)
  ELSE JSONStringify(v)

RECURSIVE getString(_, _, _)
getString(dto, keys, fallback) ==
  IF dto = Null \/ keys = <<>> THEN fallback
  ELSE LET k == Head(keys)
           foundKey == FindKeyIgnoreCase(dto, k)
           found == Get(dto, ObjectKeys(dto)[foundKey])
       IN IF HasKey(dto, k) /\ ~IsNullish(Get(dto, k)) THEN displayText(Get(dto, k))
          ELSE IF foundKey # 0 /\ ~IsNullish(found) THEN displayText(found)
          ELSE getString(dto, Tail(keys), fallback)

IsDigitOrMinus(c) == IsDigit(c) \/ c = "-"

\* getNumber: String(s).replace(/[^\d-]+/g, ""), parseInt, 0 when not finite.
getNumber(dto, keys) ==
  LET s == getString(dto, keys, <<"0">>)
      n == ParseInt(SelectSeq(s, IsDigitOrMinus))
  IN IF n = NaN THEN Num(0) ELSE n

(***************************************************************************)
(* Period conversion: legacyToNormalized, PeriodSelector.toIso and         *)
(* isoToLegacyPeriod.                                                      *)
(***************************************************************************)
\* s.padStart(2, "0")
PadStart2(s) ==
  IF Len(s) >= 2 THEN s ELSE IF Len(s) = 1 THEN <<"0">> \o s ELSE <<"0", "0">>

\* pad = (s) => (s ? s.padStart(2, "0") : undefined); undefined is Undef.
pad(s) == IF s = <<>> THEN Undef ELSE Str(PadStart2(s))

\* legacyToNormalized: the ISO date built from dia, mes and ano, undefined
\* when one of them is missing.
legacyIso(dia, mes, ano) ==
  IF ano # <<>> /\ Truthy(pad(mes)) /\ Truthy(pad(dia))
  THEN Str(ano \o <<"-">> \o pad(mes).s \o <<"-">> \o pad(dia).s)
  ELSE Undef

\* A pad2 that leaves one-digit numbers as they are.
pad2_Unpadded(n) == NumToStr(n)

\* pad2 = (n) => (n < 10 ? `0${n}` : String(n))
pad2(n) == IF n < 10 THEN <<"0">> \o NumToStr(n) ELSE NumToStr(n)

\* PeriodSelector.toIso
toIso(y, m, d) == NumToStr(y) \o <<"-">> \o pad2(m) \o <<"-">> \o pad2(d)

\* s.split("-")
RECURSIVE Split(_)
Split(s) ==
  LET cut == {i \in 1..Len(s) : s[i] = "-"}
      first == CHOOSE i \in cut : \A j \in cut : i <= j
  IN IF cut = {} THEN <<s>>
     ELSE <<SubSeq(s, 1, first - 1)>> \o Split(SubSeq(s, first + 1, Len(s)))

\* String(new Date().getFullYear()): the year in which the page runs.
CurrentYearText == <<"2", "0", "2", "6">>

isoToLegacyPeriod(s) ==
  LET parts == Split(s)
  IN IF Len(parts) # 3 THEN [dia |-> <<"0", "1">>, mes |-> <<"0", "1">>, ano |-> CurrentYearText]
     ELSE [dia |-> parts[3], mes |-> parts[2], ano |-> parts[1]]

(***************************************************************************)
(* Response normalisation of the list operations.                          *)
(***************************************************************************)
\* Object.values(obj).find((v) => Array.isArray(v)): the position of the first
\* array-valued property, 0 when there is none.
FirstArrayProp(obj) ==
  LET hits == {i \in 1..Len(obj.kids) : IsArray(obj.kids[i])}
  IN IF hits = {} THEN 0 ELSE CHOOSE i \in hits : \A j \in hits : i <= j

\* getArquivos: the array payload located in the response body.
rawArray(data) ==
  IF IsArray(data) THEN data.kids
  ELSE IF IsObjectLike(data)
       THEN IF IsArray(Get(data, K.arquivo)) THEN Get(data, K.arquivo).kids
            ELSE IF IsArray(Get(data, K.data)) THEN Get(data, K.data).kids
            ELSE IF IsArray(Get(data, K.result)) THEN Get(data, K.result).kids
            ELSE IF FirstArrayProp(data) # 0 THEN data.kids[FirstArrayProp(data)].kids
            ELSE <<>>
       ELSE <<>>

\* getArquivos: one element of the payload mapped to an Arquivo.
mapItem(it) ==
  IF IsObjectLike(it) THEN mapToArquivo(it)
  ELSE Return(Arquivo(JSString(Coalesce(it, Str(<<>>))), Num(0), Num(0), Num(0), Num(0), Num(0),
                      Obj(<<K.value>>, <<it>>)))

\* getArquivos, from the response body on: the Arquivo list the promise
\* resolves with, or the exception it rejects with.
getArquivos(data) ==
  LET raw == rawArray(data)
      mapped == [i \in 1..Len(raw) |-> mapItem(raw[i])]
  IN IF Len(raw) = 0 THEN Return(<<>>)
     ELSE IF \E i \in 1..Len(raw) : mapped[i] = Throw THEN Throw
     ELSE Return([i \in 1..Len(raw) |-> mapped[i].value])

\* A getAll that answers an object without a known wrapper with the empty
\* list, as getArquivos does.
getAll_EmptyFallback(data) ==
  IF IsArray(data) THEN Return(data.kids)
  ELSE IF IsObjectLike(data)
       THEN IF IsArray(Get(data, K.arquivo)) THEN Return(Get(data, K.arquivo).kids)
            ELSE IF IsArray(Get(data, K.data)) THEN Return(Get(data, K.data).kids)
            ELSE IF IsArray(Get(data, K.result)) THEN Return(Get(data, K.result).kids)
            ELSE Return(<<>>)
       ELSE Return(<<>>)

\* getAll, from the response body on.
getAll(data) ==
  IF IsArray(data) THEN Return(data.kids)
  ELSE IF IsObjectLike(data)
       THEN IF IsArray(Get(data, K.arquivo)) THEN Return(Get(data, K.arquivo).kids)
            ELSE IF IsArray(Get(data, K.data)) THEN Return(Get(data, K.data).kids)
            ELSE IF IsArray(Get(data, K.result)) THEN Return(Get(data, K.result).kids)
            ELSE Return(<<data>>)
       ELSE Return(<<>>)

(***************************************************************************)
(* useUploadedFiles: the pieces of fetchList.                              *)
(***************************************************************************)
DefaultListError ==
  <<"E", "r", "r", "o", " ", "a", "o", " ", "b", "u", "s", "c", "a", "r">>

\* Number(s) of a header string made of a sign and digits: 0 for the empty
\* string, NaN for anything that is not a number.
JSNumber(s) ==
  LET signed == Len(s) > 0 /\ s[1] \in {"-", "+"}
      first == IF signed THEN 2 ELSE 1
  IN IF Len(s) = 0 THEN Num(0)
     ELSE IF first <= Len(s) /\ DigitRun(s, first) = Len(s) THEN ParseInt(s)
     ELSE NaN

\* receivedItems: data.items when it is an array, else data when it is an
\* array, else the empty list.
receivedItems(data) ==
  IF IsArray(Get(data, K.items)) THEN Get(data, K.items).kids
  ELSE IF IsArray(data) THEN data.kids
  ELSE <<>>

\* A total that ignores the x-total-count header.
resolvedTotal_NoHeader(data, hdrs) ==
  IF Get(data, K.total).t = "number" THEN Get(data, K.total)
  ELSE Num(Len(receivedItems(data)))

\* The value given to setTotal.
resolvedTotal(data, hdrs) ==
  IF Get(data, K.total).t = "number" THEN Get(data, K.total)
  ELSE IF Get(hdrs, K.xTotalCount).t = "string" THEN JSNumber(Get(hdrs, K.xTotalCount).s)
  ELSE Num(Len(receivedItems(data)))

\* The page after the response: data.page when it is a number.
resolvedPage(data, current) ==
  IF Get(data, K.page).t = "number" THEN Get(data, K.page).n ELSE current

\* The page size after the response: data.pageSize when it is a number.
resolvedPageSize(data, current) ==
  IF Get(data, K.pageSize).t = "number" THEN Get(data, K.pageSize).n ELSE current

\* err?.response?.data?.error || err?.message || "Erro ao buscar lista ..."
listErrorMessage(err) ==
  IF Truthy(Get(err.data, K.error)) THEN Get(err.data, K.error)
  ELSE IF Truthy(err.message) THEN err.message
  ELSE Str(DefaultListError)

(***************************************************************************)
(* The responses the back end may send: JSON bodies and header sets.       *)
(***************************************************************************)
RecA == Obj(<<nomeArquivoKeys[1], aptosKeys[1]>>, <<Str(<<"a">>), Num(3)>>)

RecB == Obj(<<nomeArquivoKeys[4]>>, <<Str(<<"b">>)>>)

\* A record whose file name is an object with a "toString" key.
RecT == Obj(<<nomeArquivoKeys[1]>>, <<Obj(<<K.toString>>, <<Num(1)>>)>>)

Elements == {RecA, RecB, RecT, Null, Num(7), Bool(TRUE), Str(<<"x">>), Arr(<<RecA>>)}

SeqsUpTo(S, n) == UNION {[1..k -> S] : k \in 0..n}

ArrayBodies == {Arr(kids) : kids \in SeqsUpTo(Elements, MaxLen)}

PrimitiveBodies == {Null, Num(7), Bool(FALSE), Str(<<"x">>)}

WrapperKeys == {K.items, K.arquivo, K.data, K.result, K.files}

PropValues == {Arr(<<>>), Arr(<<RecA>>), Arr(<<RecB>>), Num(5)}

\* The property k: v of an object literal, left out when v is undefined.
Prop(k, v) == IF v = Undef THEN [keys |-> <<>>, kids |-> <<>>] ELSE [keys |-> <<k>>, kids |-> <<v>>]

\* The pagination fields a body may carry besides its records.
MetaProps ==
  {[keys |-> Prop(K.total, tot).keys \o Prop(K.page, pg).keys \o Prop(K.pageSize, sz).keys,
    kids |-> Prop(K.total, tot).kids \o Prop(K.page, pg).kids \o Prop(K.pageSize, sz).kids] :
     tot \in {Undef, Num(9), Str(<<"9">>)}, pg \in {Undef, Num(2)}, sz \in {Undef, Num(10)}}

\* Objects with no, one or two of the wrapper keys, in either order.
WrapperProps ==
  {w \in [keys : SeqsUpTo(WrapperKeys, 2), kids : SeqsUpTo(PropValues, 2)] :
     /\ Len(w.keys) = Len(w.kids)
     /\ \A i, j \in 1..Len(w.keys) : i # j => w.keys[i] # w.keys[j]}

\* Bodies with at most one wrapper key carry any of the pagination fields.
ObjectBodies ==
  {Obj(w.keys \o m.keys, w.kids \o m.kids) : w \in {x \in WrapperProps : Len(x.keys) <= 1}, m \in MetaProps}
    \cup {Obj(w.keys, w.kids) : w \in WrapperProps}

Bodies == ArrayBodies \cup PrimitiveBodies \cup ObjectBodies

HeaderSets ==
  {Obj(<<>>, <<>>), Obj(<<K.xTotalCount>>, <<Str(<<"1", "2">>)>>),
   Obj(<<K.xTotalCount>>, <<Str(<<"x">>)>>)}

(***************************************************************************)
(* State.                                                                  *)
(*   respData, respHeaders : the response of the back end to the list      *)
(*                           request of the ListarArquivos page            *)
(*   arquivos, dtos        : what getArquivos and getAll settled with      *)
(*   item                  : a raw record received from the back end       *)
(*   mapped                : what mapToArquivo(item) settled with          *)
(*   shown                 : the number ArquivoDetailPage shows for "aptos"*)
(*   date                  : the year, month and day selected in a form    *)
(*   legacy                : the same date as legacy dia/mes/ano text      *)
(*   iso                   : the ISO string the conversion produced        *)
(*   back                  : isoToLegacyPeriod(iso)                        *)
(*   items .. error        : the state of the useUploadedFiles hook        *)
(*   inflight              : the list requests awaiting their response     *)
(*   effectPending         : fetchList changed, its effect has yet to run  *)
(*   issued                : the number of list requests sent so far       *)
(*   settled               : the fetchList call that has just settled      *)
(***************************************************************************)
VARIABLES respData, respHeaders, arquivos, dtos,
          item, mapped, shown,
          date, legacy, iso, back,
          items, total, page, pageSize, filters, loading, error,
          inflight, effectPending, issued, settled,
          route, selector, listar, form, row, detail, upload, call, session, table,
          arquivoForm, viewer

normVars == <<respData, respHeaders, arquivos, dtos>>

hookVars == <<items, total, page, pageSize, filters, loading, error,
              inflight, effectPending, issued, settled>>

decodeVars == <<item, mapped, shown>>

periodVars == <<date, legacy, iso, back>>

pageVars == <<route, selector, listar, form, row, detail, upload, call, session, table,
              arquivoForm, viewer>>

vars == <<normVars, decodeVars, periodVars, hookVars, pageVars>>

Pending == [kind |-> "pending", value |-> <<>>]

InitialPage == 1

InitialPageSize == 20

PageSizes == {10, 20}

\* The period filters a form may submit, as handleFilterSubmit receives them.
FilterSets ==
  {Obj(<<K.inicialano>>, <<Str(<<"2", "0", "2", "3">>)>>),
   Obj(<<K.inicialano>>, <<Str(<<"2", "0", "2", "4">>)>>)}

Request(id, pg, sz, f) == [id |-> id, page |-> pg, pageSize |-> sz, filters |-> f]

NoRequest == Request(0, 0, 0, Undef)

NotSettled == [state |-> "none", req |-> NoRequest, data |-> Undef, headers |-> Undef, message |-> Undef]

\* useUploadedFiles(undefined, 1, 20) at its first render; the effect that
\* fetches on mount has yet to run.
HookMounted ==
  /\ items = <<>>
  /\ loading = FALSE
  /\ error = Null
  /\ page = InitialPage
  /\ pageSize = InitialPageSize
  /\ total = Undef
  /\ filters = Undef
  /\ inflight = {}
  /\ effectPending = TRUE
  /\ issued = 0
  /\ settled = NotSettled

\* fetchList(opts) up to its await: loading and error are reset and the
\* request is sent with the query built from opts.
fetchList(pg, sz, f) ==
  /\ issued < MaxReq
  /\ loading' = TRUE
  /\ error' = Null
  /\ inflight' = inflight \cup {Request(issued + 1, pg, sz, f)}
  /\ issued' = issued + 1
  /\ settled' = NotSettled
  /\ UNCHANGED <<normVars, decodeVars, periodVars>>

\* useEffect(() => { fetchList(); }, [fetchList]): runs after mount and after
\* every render in which filters, page or pageSize changed.
FetchEffect ==
  /\ effectPending
  /\ fetchList(page, pageSize, filters)
  /\ effectPending' = FALSE
  /\ UNCHANGED <<items, total, page, pageSize, filters, pageVars>>

\* The response of request r arrives: the try block of fetchList and its finally.
FetchResolve(r, data, hdrs) ==
  /\ ~effectPending
  /\ r \in inflight
  /\ inflight' = inflight \ {r}
  /\ items' = receivedItems(data)
  /\ total' = resolvedTotal(data, hdrs)
  /\ page' = resolvedPage(data, page)
  /\ pageSize' = resolvedPageSize(data, pageSize)
  /\ loading' = FALSE
  /\ effectPending' = (page' # page \/ pageSize' # pageSize)
  /\ settled' = [state |-> "fulfilled", req |-> r, data |-> data, headers |-> hdrs, message |-> Undef]
  /\ UNCHANGED <<filters, error, issued>>
  /\ UNCHANGED <<normVars, decodeVars, periodVars, pageVars>>

\* A catch block that drops the list it had.
FetchReject_DropsItems(r, err) ==
  /\ ~effectPending
  /\ r \in inflight
  /\ inflight' = inflight \ {r}
  /\ items' = <<>>
  /\ total' = Num(0)
  /\ error' = Str(JSString(listErrorMessage(err)))
  /\ loading' = FALSE
  /\ settled' = [state |-> "rejected", req |-> r, data |-> err.data, headers |-> Undef,
                 message |-> err.message]
  /\ UNCHANGED <<page, pageSize, filters, effectPending, issued>>
  /\ UNCHANGED <<normVars, decodeVars, periodVars, pageVars>>

\* The request r fails: the catch block of fetchList and its finally.  The
\* previous items, total, page and pageSize are kept.
FetchReject(r, err) ==
  /\ ~effectPending
  /\ r \in inflight
  /\ inflight' = inflight \ {r}
  /\ error' = Str(JSString(listErrorMessage(err)))
  /\ loading' = FALSE
  /\ settled' = [state |-> "rejected", req |-> r, data |-> err.data, headers |-> Undef,
                 message |-> err.message]
  /\ UNCHANGED <<items, total, page, pageSize, filters, effectPending, issued>>
  /\ UNCHANGED <<normVars, decodeVars, periodVars, pageVars>>

goToPage(newPage) ==
  /\ ~effectPending
  /\ page' = newPage
  /\ fetchList(newPage, pageSize, filters)
  /\ effectPending' = (newPage # page)
  /\ UNCHANGED <<items, total, pageSize, filters, pageVars>>

GoToPage == \E newPage \in 1..MaxPage : goToPage(newPage)

NextPage == page + 1 <= MaxPage /\ goToPage(page + 1)

PrevPage == goToPage(IF page - 1 > 1 THEN page - 1 ELSE 1)

ChangePageSize ==
  \E newPageSize \in PageSizes :
    /\ ~effectPending
    /\ pageSize' = newPageSize
    /\ page' = 1
    /\ fetchList(1, newPageSize, filters)
    /\ effectPending' = (newPageSize # pageSize \/ page # 1)
    /\ UNCHANGED <<items, total, filters, pageVars>>

\* The submitted filters are a new object: fetchList always changes.
handleFilterSubmit(submittedFilters) ==
  /\ ~effectPending
  /\ filters' = submittedFilters
  /\ page' = 1
  /\ fetchList(1, pageSize, submittedFilters)
  /\ effectPending' = TRUE
  /\ UNCHANGED <<items, total, pageSize, pageVars>>

HandleFilterSubmit == \E submittedFilters \in FilterSets : handleFilterSubmit(submittedFilters)

Reload ==
  /\ ~effectPending
  /\ fetchList(page, pageSize, filters)
  /\ UNCHANGED <<items, total, page, pageSize, filters, effectPending, pageVars>>

\* fetchList({ filters: undefined, ... }) falls back to the filters of the
\* current render (opts?.filters ?? filters): the request still carries them.
ClearFilters ==
  /\ ~effectPending
  /\ filters' = Undef
  /\ page' = 1
  /\ fetchList(1, pageSize, filters)
  /\ effectPending' = (filters # Undef \/ page # 1)
  /\ UNCHANGED <<items, total, pageSize, pageVars>>

\* The responses and failures of the list endpoint seen by the hook.
HookResponses ==
  {[data |-> Arr(<<RecA>>), headers |-> Obj(<<>>, <<>>)],
   [data |-> Obj(<<K.items, K.page>>, <<Arr(<<RecB>>), Num(2)>>), headers |-> Obj(<<>>, <<>>)],
   [data |-> Obj(<<K.items, K.total, K.pageSize>>, <<Arr(<<>>), Num(9), Num(10)>>),
    headers |-> Obj(<<>>, <<>>)]}

HookErrors ==
  {[data |-> Obj(<<K.error>>, <<Str(<<"e">>)>>), message |-> Str(<<"m">>)],
   [data |-> Obj(<<K.message>>, <<Str(<<"b">>)>>), message |-> Str(<<"m">>)],
   [data |-> Obj(<<K.error, K.message>>, <<Str(<<>>), Str(<<"b">>)>>), message |-> Str(<<"m">>)],
   [data |-> Undef, message |-> Str(<<"m">>)],
   [data |-> Undef, message |-> Undef]}

ResolveAny == \E r \in inflight, resp \in HookResponses : FetchResolve(r, resp.data, resp.headers)

RejectAny == \E r \in inflight, err \in HookErrors : FetchReject(r, err)

\* No detail route has been entered.
NoDetail == [path |-> "none", segment |-> <<>>, alerted |-> FALSE, loaded |-> FALSE,
             request |-> Undef, error |-> Null, file |-> Null, answer |-> Undef]

\* UploadFileForm at its first render, with the file and the texts typed in.
UploadForm(file, origem, descricao) ==
  [file |-> file, origem |-> origem, descricao |-> descricao, progress |-> Null, loading |-> FALSE,
   successMessage |-> Null, errorMessage |-> Null, posted |-> Undef, answer |-> Undef,
   attempts |-> 0, onSuccess |-> 0]

\* useSession: the texts sessionStorage and localStorage keep under
\* "informacoesusuario" and "login" (null when absent), and the hook's state.
Session(sessionStorage, localStorage, user, loginValue) ==
  [sessionStorage |-> sessionStorage, localStorage |-> localStorage, user |-> user,
   loginValue |-> loginValue]

\* A call of a service function with one argument, before it is made.
ServiceCalled(fn, arg) == [fn |-> fn, arg |-> arg, done |-> FALSE, request |-> Undef]

\* A detail page before its effect has run: the component, the route
\* parameter, the useState values, the requests awaited (each with the
\* mounted flag of the effect that sent it), and for the file and the error
\* the route parameter they were set for.
Viewer(component, id) ==
  [component |-> component, id |-> id, mounted |-> TRUE,
   file |-> Null, loading |-> (component = "ArquivoDetailPage"), error |-> Null,
   requests |-> {}, sent |-> 0, fileOf |-> Undef, errorOf |-> Undef, last |-> "mount"]

\* The state of ArquivoForm: the props, the text fields (the five counters
\* by name), the feedback, the create request in flight, the calls of
\* onCreated and the last thing that happened to the form.
ArquivoForm(clearOnSuccess, nomearquivo, quantidaderegistro) ==
  [clearOnSuccess |-> clearOnSuccess, nomearquivo |-> nomearquivo,
   counters |-> [quantidaderegistro |-> quantidaderegistro, aptos |-> <<"0">>,
                 semdocumento |-> <<"0">>, comcodigosetps |-> <<"0">>, comerro |-> <<"0">>],
   loading |-> FALSE, successMessage |-> Null, errorMessage |-> Null, fieldErrors |-> {},
   request |-> Undef, onCreated |-> <<>>, last |-> "mount"]

\* A FileTable as its page renders it: the component, the current page, the
\* page size and the number of records; no button has been clicked.
FileTable(component, current, size, count) ==
  [component |-> component, currentPage |-> current, pageSize |-> size, total |-> count,
   clicked |-> "none", from |-> current, emitted |-> <<>>]

\* A storage without the two keys.
NoItems == [informacoesusuario |-> Null, login |-> Null]

\* No page is mounted.
PagesIdle ==
  /\ route = "none"
  /\ selector = [startYear |-> 0, startMonth |-> 0, startDay |-> 0,
                 endYear |-> 0, endMonth |-> 0, endDay |-> 0, error |-> Null, clampPending |-> FALSE]
  /\ listar = [loading |-> FALSE, error |-> Null, issued |-> 0, request |-> Undef,
               inflight |-> {}, arquivos |-> <<>>, outcome |-> Undef]
  /\ form = [inicialdia |-> <<>>, inicialmes |-> <<>>, inicialano |-> <<>>,
             finaldia |-> <<>>, finalmes |-> <<>>, finalano |-> <<>>]
  /\ row = Undef
  /\ detail = NoDetail
  /\ upload = UploadForm(Null, <<>>, <<>>)
  /\ call = ServiceCalled("none", Undef)
  /\ session = Session(NoItems, NoItems, Null, Null)
  /\ table = FileTable("none", 1, 1, 0)
  /\ arquivoForm = ArquivoForm(TRUE, <<>>, <<"0">>)
  /\ viewer = Viewer("none", Undef)

\* No period is being converted.
PeriodIdle ==
  /\ date = [year |-> 0, month |-> 0, day |-> 0]
  /\ legacy = [dia |-> <<>>, mes |-> <<>>, ano |-> <<>>]
  /\ iso = Pending
  /\ back = Pending

\* No record is being decoded.
DecodeIdle ==
  /\ item = Null
  /\ mapped = Pending
  /\ shown = Pending

(***************************************************************************)
(* The list services called on a response.                                 *)
(***************************************************************************)
GetArquivosCall ==
  /\ arquivos = Pending
  /\ arquivos' = getArquivos(respData)
  /\ UNCHANGED <<respData, respHeaders, dtos, decodeVars, periodVars, hookVars, pageVars>>

GetAllCall ==
  /\ dtos = Pending
  /\ dtos' = getAll(respData)
  /\ UNCHANGED <<respData, respHeaders, arquivos, decodeVars, periodVars, hookVars, pageVars>>

\* The hook's list request is answered with the same response.
ResolveTested == \E r \in inflight : FetchResolve(r, respData, respHeaders)

Init ==
  /\ respData \in Bodies
  /\ respHeaders \in HeaderSets
  /\ arquivos = Pending
  /\ dtos = Pending
  /\ DecodeIdle
  /\ PeriodIdle
  /\ PagesIdle
  /\ HookMounted

Next == GetArquivosCall \/ GetAllCall \/ FetchEffect \/ ResolveTested

Spec == Init /\ [][Next]_vars

(***************************************************************************)
(* The hook under user actions and overlapping requests.                   *)
(***************************************************************************)
NormIdle ==
  /\ respData = Null
  /\ respHeaders = Obj(<<>>, <<>>)
  /\ arquivos = Pending
  /\ dtos = Pending

InitHook == NormIdle /\ DecodeIdle /\ PeriodIdle /\ PagesIdle /\ HookMounted

NextHook ==
  \/ FetchEffect
  \/ GoToPage
  \/ NextPage
  \/ PrevPage
  \/ ChangePageSize
  \/ HandleFilterSubmit
  \/ Reload
  \/ ClearFilters
  \/ ResolveAny
  \/ RejectAny

SpecHook == InitHook /\ [][NextHook]_vars

(***************************************************************************)
(* Record decoding applied to the raw records a back end may send.         *)
(***************************************************************************)
RecordKeys ==
  {nomeArquivoKeys[1], K.NOMEARQUIVO, nomeArquivoKeys[2], nomeArquivoKeys[4],
   aptosKeys[1], K.Aptos, quantidadeRegistroKeys[4]}

RecordValues == {Str(<<"a">>), Str(<<"b">>), Str(<<"7">>), Null, Num(4)}

\* Records with up to MaxKeys distinct keys, in any insertion order.
AliasedRecords ==
  {Obj(r.keys, r.kids) :
     r \in {x \in [keys : SeqsUpTo(RecordKeys, MaxKeys), kids : SeqsUpTo(RecordValues, MaxKeys)] :
              /\ Len(x.keys) = Len(x.kids)
              /\ \A i, j \in 1..Len(x.keys) : i # j => x.keys[i] # x.keys[j]}}

Alphabet == {"1", "2", ".", "-", "a"}

RawStrings ==
  SeqsUpTo(Alphabet, MaxStr) \cup {<<"1", ".", "2", "3", "4">>, <<"a", "b", "c">>}

\* The values a numeric field may hold in a response.
RawValues ==
  {Str(s) : s \in RawStrings}
    \cup {Num(n) : n \in {0 - 12, 0, 7, 1234}}
    \cup {Bool(TRUE), Bool(FALSE), Null, Obj(<<>>, <<>>), Obj(<<K.value>>, <<Num(5)>>),
          Obj(<<K.toString>>, <<Num(1)>>), Arr(<<Num(1), Str(<<"2">>)>>)}

NumericRecords == {Obj(<<aptosKeys[1]>>, <<v>>) : v \in RawValues}

\* Records whose file name is not a text.
NamedRecords ==
  {Obj(<<nomeArquivoKeys[1], aptosKeys[1]>>, <<v, Num(3)>>) :
     v \in {Num(7), Bool(TRUE), Arr(<<Num(1), Null>>), Obj(<<>>, <<>>), Obj(<<K.toString>>, <<Num(1)>>)}}

DecodeItems == AliasedRecords \cup NumericRecords \cup NamedRecords

MapToArquivoCall ==
  /\ mapped = Pending
  /\ mapped' = mapToArquivo(item)
  /\ UNCHANGED <<item, shown, normVars, periodVars, hookVars, pageVars>>

GetNumberCall ==
  /\ shown = Pending
  /\ shown' = getNumber(item, aptosKeys)
  /\ UNCHANGED <<item, mapped, normVars, periodVars, hookVars, pageVars>>

InitDecode ==
  /\ item \in DecodeItems
  /\ mapped = Pending
  /\ shown = Pending
  /\ NormIdle
  /\ PeriodIdle
  /\ PagesIdle
  /\ HookMounted

NextDecode == MapToArquivoCall \/ GetNumberCall

SpecDecode == InitDecode /\ [][NextDecode]_vars

(***************************************************************************)
(* Period conversion applied to the dates a period form may hold.          *)
(***************************************************************************)
\* The number of days of month m of year y, as daysInMonth computes it.
daysInMonth(y, m) ==
  IF m = 2 THEN (IF (y % 4 = 0 /\ y % 100 # 0) \/ y % 400 = 0 THEN 29 ELSE 28)
  ELSE IF m \in {4, 6, 9, 11} THEN 30 ELSE 31

PeriodYears == {1, 99, 1900, 2000, 2023, 2024, 9999}

CalendarDates ==
  {dt \in [year : PeriodYears, month : 1..12, day : 1..31] : dt.day <= daysInMonth(dt.year, dt.month)}

\* The text of a select value: the number as it is, or padded to two digits.
FieldTexts(n) == {NumToStr(n), pad2(n)}

\* legacyToNormalized on the legacy fields.
LegacyToNormalized ==
  /\ iso = Pending
  /\ iso' = Return(legacyIso(legacy.dia, legacy.mes, legacy.ano))
  /\ UNCHANGED <<date, legacy, back, normVars, decodeVars, hookVars, pageVars>>

\* PeriodSelector.toIso on the selected numbers.
ToIso ==
  /\ iso = Pending
  /\ iso' = Return(Str(toIso(date.year, date.month, date.day)))
  /\ UNCHANGED <<date, legacy, back, normVars, decodeVars, hookVars, pageVars>>

\* isoToLegacyPeriod on the ISO string.
IsoToLegacy ==
  /\ iso # Pending
  /\ iso.value.t = "string"
  /\ back = Pending
  /\ back' = Return(isoToLegacyPeriod(iso.value.s))
  /\ UNCHANGED <<date, legacy, iso, normVars, decodeVars, hookVars, pageVars>>

InitPeriod ==
  /\ date \in CalendarDates
  /\ legacy \in [dia : FieldTexts(date.day), mes : FieldTexts(date.month), ano : {NumToStr(date.year)}]
  /\ iso = Pending
  /\ back = Pending
  /\ NormIdle
  /\ DecodeIdle
  /\ PagesIdle
  /\ HookMounted

NextPeriod == LegacyToNormalized \/ ToIso \/ IsoToLegacy

SpecPeriod == InitPeriod /\ [][NextPeriod]_vars

(***************************************************************************)
(* Properties of the response normalisation (specification Spec).          *)
(***************************************************************************)
\* The raw payload getArquivos keeps for element it of the response.
RawOf(it) == IF IsObjectLike(it) THEN it ELSE Obj(<<K.value>>, <<it>>)

\* getArquivos resolved with one Arquivo per element of recs, in order.
ArquivosAre(recs) ==
  /\ arquivos.kind = "return"
  /\ Len(arquivos.value) = Len(recs)
  /\ \A i \in 1..Len(recs) : arquivos.value[i].raw = RawOf(recs[i])

ArrayProps(data) == {i \in 1..Len(data.kids) : data.kids[i].t = "array"}

\* C1: a response body that is a JSON array of n elements yields exactly n
\* records in the same order, from getArquivos and from fetchList.
C1_ArrayYieldsAllRecords ==
  respData.t = "array" =>
    /\ arquivos # Pending => ArquivosAre(respData.kids)
    /\ settled.state = "fulfilled" => items = respData.kids

\* C1, as far as the code goes: the n records are kept whenever getArquivos
\* resolves; it rejects for some arrays (see C7).
C1_ArrayKeptWhenResolved ==
  respData.t = "array" =>
    /\ arquivos.kind = "return" => ArquivosAre(respData.kids)
    /\ settled.state = "fulfilled" => items = respData.kids

\* The only array-valued property of an object body.
OnlyArray(data) == data.kids[CHOOSE i \in ArrayProps(data) : TRUE].kids

\* C2: an object body with exactly one array-valued property, whatever its
\* key, has that array used as the records by getArquivos, getAll and fetchList.
C2_SingleArrayPropertyUsed ==
  (respData.t = "object" /\ Cardinality(ArrayProps(respData)) = 1) =>
    /\ arquivos # Pending => ArquivosAre(OnlyArray(respData))
    /\ dtos # Pending => dtos = Return(OnlyArray(respData))
    /\ settled.state = "fulfilled" => items = OnlyArray(respData)

WrapperPriority == <<K.items, K.arquivo, K.data, K.result>>

\* The records the wrapper priority list selects: the array under the first
\* wrapper key that holds one, else the first array in insertion order.
PriorityArray(data) ==
  LET hits == {p \in 1..Len(WrapperPriority) :
                 \E i \in ArrayProps(data) : data.keys[i] = WrapperPriority[p]}
      best == CHOOSE p \in hits : \A q \in hits : p <= q
      first == CHOOSE i \in ArrayProps(data) : \A j \in ArrayProps(data) : i <= j
  IN IF hits # {} THEN data.kids[CHOOSE i \in ArrayProps(data) : data.keys[i] = WrapperPriority[best]].kids
     ELSE data.kids[first].kids

\* C3: an object body holding arrays under several keys has its records taken
\* from the first key of the list items, arquivo, data, result that holds an
\* array, whatever the insertion order; the scan in insertion order is used
\* only when no wrapper key holds an array.
C3_WrapperPriorityOrder ==
  (respData.t = "object" /\ Cardinality(ArrayProps(respData)) >= 2) =>
    /\ arquivos # Pending => ArquivosAre(PriorityArray(respData))
    /\ dtos # Pending => dtos = Return(PriorityArray(respData))
    /\ settled.state = "fulfilled" => items = PriorityArray(respData)

NoArrayProp(data) == data.t = "object" /\ ArrayProps(data) = {}

RECURSIVE DecimalValue(_, _)
DecimalValue(s, acc) ==
  IF s = <<>> THEN acc ELSE DecimalValue(Tail(s), acc * 10 + DigitVal(Head(s)))

\* The value of a total-count header.
HeaderTotal(s) ==
  IF s # <<>> /\ \A i \in 1..Len(s) : IsDigit(s[i]) THEN Num(DecimalValue(s, 0)) ELSE NaN

C7_NormalizationNeverRaises ==
  /\ arquivos.kind # "throw"
  /\ error = Null

(***************************************************************************)
(* Properties of the hook (specification SpecHook).                        *)
(***************************************************************************)
\* C6: after a successful fetchList the page (the page size) is the one of the
\* body when the body carries it, and otherwise the one sent in that request.
C6_PageFollowsBodyOrRequest ==
  settled.state = "fulfilled" =>
    /\ page = (IF Get(settled.data, K.page).t = "number"
               THEN Get(settled.data, K.page).n ELSE settled.req.page)
    /\ pageSize = (IF Get(settled.data, K.pageSize).t = "number"
                   THEN Get(settled.data, K.pageSize).n ELSE settled.req.pageSize)

(***************************************************************************)
(* Properties of the record decoding (specification SpecDecode).           *)
(***************************************************************************)
\* The positions of the record's keys that equal the alias up to case.
AliasHits(rec, a) ==
  {i \in 1..Len(rec.keys) : ToLowerCase(rec.keys[i]) = ToLowerCase(a)}

\* The raw value of a canonical field: that of the first alias, in the list's
\* order, that hits a key; the exact key when it holds a value, else the first
\* key equal up to case; undefined when no alias hits.
FirstHitValue(rec, aliases) ==
  LET hitting == {i \in 1..Len(aliases) : AliasHits(rec, aliases[i]) # {}}
      first == CHOOSE i \in hitting : \A j \in hitting : i <= j
      exact == {i \in 1..Len(rec.keys) : rec.keys[i] = aliases[first] /\ ~IsNullish(rec.kids[i])}
      near == CHOOSE i \in AliasHits(rec, aliases[first]) :
                \A j \in AliasHits(rec, aliases[first]) : i <= j
  IN IF hitting = {} THEN Undef
     ELSE IF exact # {} THEN rec.kids[CHOOSE i \in exact : TRUE]
     ELSE rec.kids[near]

\* The decoded number of a raw field value, 0 for a missing one.
NumberOf(v) == IF IsNullish(v) THEN Num(0) ELSE toNumber(v)

\* The fields of the decoded record are those of the first hitting aliases.
DecodedFromFirstHits ==
  /\ mapped.value.nomeArquivo =
       (IF IsNullish(FirstHitValue(item, nomeArquivoKeys)) THEN <<>>
        ELSE JSString(FirstHitValue(item, nomeArquivoKeys)))
  /\ mapped.value.quantidadeRegistro = NumberOf(FirstHitValue(item, quantidadeRegistroKeys))
  /\ mapped.value.aptos = NumberOf(FirstHitValue(item, aptosKeys))
  /\ mapped.value.semDocumento = NumberOf(FirstHitValue(item, semDocumentoKeys))
  /\ mapped.value.comCodigoSetps = NumberOf(FirstHitValue(item, comCodigoSetpsKeys))
  /\ mapped.value.comErro = NumberOf(FirstHitValue(item, comErroKeys))

\* C8: for every raw record mapToArquivo decodes each canonical field from
\* the first alias, in the alias list's order, that hits a key of the record
\* (exact key before a key equal up to case); a field no alias hits decodes to
\* 0, the file name to the empty string.
C8_FirstAliasHitDecodes ==
  mapped # Pending => (mapped.kind = "return" /\ DecodedFromFirstHits)

\* Whenever mapToArquivo returns, the fields are those of the first hits.
C8_FirstAliasHitWhenDecoded ==
  (mapped # Pending /\ mapped.kind = "return") => DecodedFromFirstHits

\* The number the decimal digits of a text denote, 0 when it has none.
DigitsNumber(s) == Num(DecimalValue(SelectSeq(s, IsDigit), 0))

C9_WitnessNothingParseable ==
  /\ item = Obj(<<aptosKeys[1]>>, <<Str(<<"a", "b", "c">>)>>)
  /\ mapped # Pending
  /\ mapped.kind = "return"
  /\ mapped.value.aptos = Num(0)
  /\ shown = Num(0)

(***************************************************************************)
(* Properties of the period conversion (specification SpecPeriod).         *)
(***************************************************************************)
\* The two decimal digits of a number below 100.
TwoDigits(n) == NumToStr(n \div 10) \o NumToStr(n % 10)

\* C10: for every valid calendar date given as legacy day, month and year,
\* legacy to ISO (legacyToNormalized or PeriodSelector.toIso) and ISO back to
\* legacy (isoToLegacyPeriod) gives the same three parts, day and month padded
\* to two digits and the year unchanged.
C10_LegacyIsoRoundTrip ==
  back # Pending =>
    back.value = [dia |-> TwoDigits(date.day), mes |-> TwoDigits(date.month), ano |-> legacy.ano]

\* A date with a one-digit day, entered unpadded, has made the round trip.
C10_Witness ==
  /\ back # Pending
  /\ date.day < 10
  /\ legacy.dia = NumToStr(date.day)
  /\ Len(legacy.dia) = 1
  /\ back.value.dia = <<"0">> \o legacy.dia

(***************************************************************************)
(* The pages: the period form of ListarArquivos (PeriodSelector) and the   *)
(* legacy day/month/year selects of UploadedFiles.                         *)
(*   route    : the page that is mounted                                   *)
(*   selector : the state of PeriodSelector; clampPending says that the    *)
(*              effects clamping the days have yet to run                  *)
(*   listar   : the state of ListarArquivosPage and the parameters of the  *)
(*              list request it issued last                                *)
(*   form     : the six selects of UploadedFilesPage                       *)
(***************************************************************************)
\* new Date(y, m - 1, d): the year, month and day of the local date made.
\* A year from 0 to 99 denotes 1900 + y; a day past the end of the month
\* rolls over into the next month.
NewDate(y, m, d) ==
  LET yy == IF y \in 0..99 THEN 1900 + y ELSE y
      dim == daysInMonth(yy, m)
  IN IF d <= dim THEN [year |-> yy, month |-> m, day |-> d]
     ELSE IF m = 12 THEN [year |-> yy + 1, month |-> 1, day |-> d - dim]
     ELSE [year |-> yy, month |-> m + 1, day |-> d - dim]

isValidDate(y, m, d) ==
  IF m < 1 \/ m > 12 THEN FALSE
  ELSE IF d < 1 THEN FALSE
  ELSE NewDate(y, m, d) = [year |-> y, month |-> m, day |-> d]

\* new Date(iso).getTime() for the text toIso made of a valid date, counted
\* in days.  Only YYYY-MM-DD with a four-digit year is the date format every
\* engine parses; any other text is parsed as the engine sees fit, here to
\* the same date or to an invalid Date (NaN).
getTime(isoText) ==
  LET parts == Split(isoText)
      days == Num((ParseInt(parts[1]).n * 12 + ParseInt(parts[2]).n) * 31 + ParseInt(parts[3]).n)
  IN IF Len(parts[1]) = 4 THEN {days} ELSE {days, NaN}

\* The parameters getArquivos sends for the period handlePeriodSubmit builds
\* from the emitted range.
getArquivosParams(startIso, endIso) ==
  LET start == isoToLegacyPeriod(startIso)
      end == isoToLegacyPeriod(endIso)
  IN Obj(<<K.inicialdia, K.inicialmes, K.inicialano, K.finaldia, K.finalmes, K.finalano>>,
         <<Str(start.dia), Str(start.mes), Str(start.ano), Str(end.dia), Str(end.mes), Str(end.ano)>>)

\* handlePeriodSubmit up to its await: the request of getArquivos is sent.
handlePeriodSubmit(startIso, endIso) ==
  /\ listar.issued < MaxSubmit
  /\ listar' = [listar EXCEPT !.loading = TRUE, !.error = Null, !.issued = @ + 1,
                              !.inflight = @ \cup {listar.issued + 1}, !.outcome = Undef,
                              !.request = getArquivosParams(startIso, endIso)]

\* getArquivos of the submission k settles: setArquivos(items), or the catch
\* block (setError, setArquivos([])); finally setLoading(false).  The rows the
\* server found for a period are told apart by the submission they answer;
\* outcome keeps what the latest submission got.
ListarAnswer ==
  /\ route = "listar"
  /\ \E k \in listar.inflight, ok \in BOOLEAN, found \in BOOLEAN :
       LET rows == IF found THEN <<k>> ELSE <<>>
           failure == Str(<<"F", "a", "l", "h", "a">>)
           answered == IF ok THEN [listar EXCEPT !.arquivos = rows]
                       ELSE [listar EXCEPT !.error = failure, !.arquivos = <<>>]
       IN /\ ~ok => ~found
          /\ listar' = [answered EXCEPT
                          !.loading = FALSE,
                          !.inflight = @ \ {k},
                          !.outcome = IF k # listar.issued THEN @
                                      ELSE IF ok THEN [arquivos |-> rows, error |-> Null]
                                      ELSE [arquivos |-> <<>>, error |-> failure]]
  /\ UNCHANGED <<route, viewer, selector, form, row, detail, upload, call, session, table, arquivoForm,
                 normVars, decodeVars, periodVars, hookVars>>

SelectorErrors ==
  [start |-> Str(<<"D", "a", "t", "a", " ", "i", "n", "i", "c", "i", "a", "l">>),
   end |-> Str(<<"D", "a", "t", "a", " ", "f", "i", "n", "a", "l">>),
   order |-> Str(<<"O", " ", "p", "e", "r", "i", "o", "d", "o", " ", "i", "n", "i", "c", "i", "a", "l">>)]

\* PeriodSelector.handleSubmit, and the onSubmit of the page when it emits.
PeriodSubmit ==
  /\ route = "listar"
  /\ ~selector.clampPending
  /\ LET startIso == toIso(selector.startYear, selector.startMonth, selector.startDay)
         endIso == toIso(selector.endYear, selector.endMonth, selector.endDay)
     IN IF ~isValidDate(selector.startYear, selector.startMonth, selector.startDay)
        THEN selector' = [selector EXCEPT !.error = SelectorErrors.start] /\ UNCHANGED listar
        ELSE IF ~isValidDate(selector.endYear, selector.endMonth, selector.endDay)
        THEN selector' = [selector EXCEPT !.error = SelectorErrors.end] /\ UNCHANGED listar
        ELSE \E startDate \in getTime(startIso), endDate \in getTime(endIso) :
               IF startDate.t = "number" /\ endDate.t = "number" /\ startDate.n > endDate.n
               THEN selector' = [selector EXCEPT !.error = SelectorErrors.order] /\ UNCHANGED listar
               ELSE selector' = [selector EXCEPT !.error = Null]
                      /\ handlePeriodSubmit(startIso, endIso)
  /\ UNCHANGED <<route, viewer, form, row, detail, upload, call, session, table, arquivoForm, normVars, decodeVars, periodVars, hookVars>>

\* Clamp effects of which only the one of the start date runs.
ClampDays_StartOnly ==
  /\ route \in {"listar", "selector"}
  /\ selector.clampPending
  /\ LET maxStart == daysInMonth(selector.startYear, selector.startMonth)
     IN selector' = [selector EXCEPT
                       !.startDay = IF @ > maxStart THEN maxStart ELSE @,
                       !.clampPending = FALSE]
  /\ UNCHANGED <<route, viewer, listar, form, row, detail, upload, call, session, table, arquivoForm, normVars, decodeVars, periodVars, hookVars>>

\* The two effects of PeriodSelector that clamp the day to the month's length.
ClampDays ==
  /\ route \in {"listar", "selector"}
  /\ selector.clampPending
  /\ LET maxStart == daysInMonth(selector.startYear, selector.startMonth)
         maxEnd == daysInMonth(selector.endYear, selector.endMonth)
     IN selector' = [selector EXCEPT
                       !.startDay = IF @ > maxStart THEN maxStart ELSE @,
                       !.endDay = IF @ > maxEnd THEN maxEnd ELSE @,
                       !.clampPending = FALSE]
  /\ UNCHANGED <<route, viewer, listar, form, row, detail, upload, call, session, table, arquivoForm, normVars, decodeVars, periodVars, hookVars>>

\* A select of a SelectGroup changes: a day among the options rendered for
\* the month and year shown, a month, or a year.  A new month or year makes
\* the clamp effects run.
Select ==
  /\ route = "selector"
  /\ ~selector.clampPending
  /\ \E field \in {"startDay", "endDay", "startMonth", "endMonth", "startYear", "endYear"},
        v \in {1, 2, 4, 28, 29, 30, 31, 2023, 2024} :
       /\ field = "startDay" => v \in 1..daysInMonth(selector.startYear, selector.startMonth)
       /\ field = "endDay" => v \in 1..daysInMonth(selector.endYear, selector.endMonth)
       /\ field \in {"startMonth", "endMonth"} => v \in 1..12
       /\ field \in {"startYear", "endYear"} => v > 31
       /\ selector' = [selector EXCEPT ![field] = v,
                                       !.clampPending = field \notin {"startDay", "endDay"}
                                                          /\ v # selector[field]]
  /\ UNCHANGED <<route, viewer, listar, form, row, detail, upload, call, session, table, arquivoForm, normVars, decodeVars, periodVars, hookVars>>

\* The Reset button: back to the defaults, thirty days before today and
\* today (1 March 2024 here).
Reset ==
  /\ route = "selector"
  /\ ~selector.clampPending
  /\ selector' = [startYear |-> 2024, startMonth |-> 1, startDay |-> 31,
                  endYear |-> 2024, endMonth |-> 3, endDay |-> 1, error |-> Null,
                  clampPending |-> <<selector.startYear, selector.startMonth, selector.endYear,
                                     selector.endMonth>> # <<2024, 1, 2024, 3>>]
  /\ UNCHANGED <<route, viewer, listar, form, row, detail, upload, call, session, table, arquivoForm, normVars, decodeVars, periodVars, hookVars>>

\* onSubmit of UploadedFilesPage: the filters hold the selects that are not
\* empty and go to handleFilterSubmit of the hook.
formFilters ==
  LET names == <<"inicialdia", "inicialmes", "inicialano", "finaldia", "finalmes", "finalano">>
      chosen == SelectSeq(names, LAMBDA n : form[n] # <<>>)
  IN Obj([i \in 1..Len(chosen) |-> K[chosen[i]]], [i \in 1..Len(chosen) |-> Str(form[chosen[i]])])

UploadedFilesSubmit ==
  /\ route = "uploaded"
  /\ handleFilterSubmit(formFilters)

\* fetchList: the query object given to listUploadedFiles.
query(f, pg, sz) ==
  LET spread == Coalesce(f, Obj(<<>>, <<>>))
      kept == SelectSeq(spread.keys, LAMBDA k : k \notin {K.page, K.pageSize})
  IN Obj(kept \o <<K.page, K.pageSize>>,
         [i \in 1..Len(kept) |-> Get(spread, kept[i])] \o <<Num(pg), Num(sz)>>)

\* The text of a legacy field, empty when the field is missing.
fieldText(params, k) == IF Get(params, k).t = "string" THEN Get(params, k).s ELSE <<>>

\* A legacyToNormalized that does not preserve the pagination.
legacyToNormalized_NoPage(params) ==
  Obj(<<K.startDate, K.endDate>>,
      <<legacyIso(fieldText(params, K.inicialdia), fieldText(params, K.inicialmes),
                  fieldText(params, K.inicialano)),
        legacyIso(fieldText(params, K.finaldia), fieldText(params, K.finalmes),
                  fieldText(params, K.finalano))>>)

legacyToNormalized(params) ==
  Obj(<<K.startDate, K.endDate, K.page, K.pageSize>>,
      <<legacyIso(fieldText(params, K.inicialdia), fieldText(params, K.inicialmes),
                  fieldText(params, K.inicialano)),
        legacyIso(fieldText(params, K.finaldia), fieldText(params, K.finalmes),
                  fieldText(params, K.finalano)),
        Get(params, K.page), Get(params, K.pageSize)>>)

\* listUploadedFiles: the query parameters of the GET request it issues.
listUploadedFiles(params) ==
  LET looksLikeLegacy ==
        /\ Truthy(params)
        /\ \E k \in {K.inicialdia, K.inicialmes, K.inicialano, K.finaldia, K.finalmes, K.finalano} :
             HasKey(params, k)
      normalized == IF looksLikeLegacy THEN legacyToNormalized(params)
                    ELSE Coalesce(params, Obj(<<>>, <<>>))
      named == <<K.startDate, K.endDate, K.page, K.pageSize>>
      extra == SelectSeq(ObjectKeys(normalized),
                         LAMBDA k : k \notin {K.startDate, K.endDate, K.page, K.pageSize})
  IN Obj(named \o extra,
         [i \in 1..4 |-> Get(normalized, named[i])] \o [i \in 1..Len(extra) |-> Get(normalized, extra[i])])

\* encodeURIComponent, for the characters of the model's strings: letters,
\* digits and - _ . ! ~ * ' ( ) stay, any other character is escaped.
RECURSIVE encodeURIComponent(_)
encodeURIComponent(s) ==
  IF s = <<>> THEN <<>>
  ELSE LET c == Head(s)
           escaped == CASE c = " " -> <<"%", "2", "0">>
                        [] c = "/" -> <<"%", "2", "F">>
                        [] c = "%" -> <<"%", "2", "5">>
                        [] c = "[" -> <<"%", "5", "B">>
                        [] c = "]" -> <<"%", "5", "D">>
                        [] c = "," -> <<"%", "2", "C">>
                        [] OTHER -> <<c>>
       IN escaped \o encodeURIComponent(Tail(s))

\* The router's decoding of a path segment into the route parameter
\* (useParams): each escape becomes the character it stands for.
RECURSIVE decodeURIComponent(_)
decodeURIComponent(s) ==
  IF s = <<>> THEN <<>>
  ELSE IF Head(s) = "%" /\ Len(s) >= 3
       THEN LET code == <<s[2], s[3]>>
                c == CASE code = <<"2", "0">> -> " "
                       [] code = <<"2", "F">> -> "/"
                       [] code = <<"2", "5">> -> "%"
                       [] code = <<"5", "B">> -> "["
                       [] code = <<"5", "D">> -> "]"
                       [] code = <<"2", "C">> -> ","
                       [] OTHER -> "?"
            IN <<c>> \o decodeURIComponent(SubSeq(s, 4, Len(s)))
       ELSE <<Head(s)>> \o decodeURIComponent(Tail(s))

candidateKeys ==
  <<K.codigoarquivo, K.codigo, K.id, K.codigoArquivo, K.codigo_arquivo, K.codigoArquivo>>

\* extractIdFromArquivo: String() of the first candidate key of the raw
\* payload whose value is not null, exact key first, then up to case; null
\* when there is none.  Str(Throws) stands for the TypeError of String().
RECURSIVE extractId(_, _)
extractId(raw, keys) ==
  IF keys = <<>> THEN Null
  ELSE LET k == Head(keys)
           found == FindKeyIgnoreCase(raw, k)
       IN IF HasKey(raw, k) /\ ~IsNullish(Get(raw, k)) THEN Str(JSString(Get(raw, k)))
          ELSE IF found # 0 /\ ~IsNullish(raw.kids[found]) THEN Str(JSString(raw.kids[found]))
          ELSE extractId(raw, Tail(keys))

extractIdFromArquivo(a) ==
  LET raw == Coalesce(a.raw, Undef)
  IN IF ~Truthy(raw) \/ ~IsObjectLike(raw) THEN Null ELSE extractId(raw, candidateKeys)

\* navigate(prefix/segment) and <Link to=prefix/segment>: the detail route
\* ":id" is entered when the segment is not empty; with an empty segment the
\* path is the one of the list.
navigate(prefix, segment) ==
  detail' = IF segment = <<>> THEN detail
            ELSE [detail EXCEPT !.path = prefix, !.segment = segment]

\* ListarArquivos.handleRowClick on the listed Arquivo of the raw record.
RowClick ==
  /\ route = "listar"
  /\ row # Undef
  /\ detail = NoDetail
  /\ mapItem(row) # Throw
  /\ LET id == extractIdFromArquivo(mapItem(row).value)
     IN IF id = Str(Throws) THEN UNCHANGED detail
        ELSE IF Truthy(id) THEN navigate("/arquivos", encodeURIComponent(JSString(id)))
        ELSE detail' = [detail EXCEPT !.alerted = TRUE]
  /\ UNCHANGED <<route, viewer, selector, listar, form, row, upload, call, session, table, arquivoForm, normVars, decodeVars, periodVars,
               hookVars>>

\* The file-name link of UploadedFilesPage, rendered for the record and
\* followed by the user.
LinkClick ==
  /\ route = "uploaded"
  /\ row # Undef
  /\ detail = NoDetail
  /\ LET targetId == Coalesce(Get(row, K.id), Get(row, K.nomearquivo))
     IN IF JSString(targetId) = Throws THEN UNCHANGED detail
        ELSE navigate("/uploaded-files", encodeURIComponent(JSString(targetId)))
  /\ UNCHANGED <<route, viewer, selector, listar, form, row, upload, call, session, table, arquivoForm, normVars, decodeVars, periodVars,
               hookVars>>

\* getUploadedFileById: the path of the GET it issues, or undefined when it
\* rejects without a request.
getUploadedFileById(id) ==
  IF id = Undef \/ id = Null \/ id = Str(<<>>) THEN Undef
  ELSE Str(<<"/", "a", "r", "q", "u", "i", "v", "o", "s", "/">> \o encodeURIComponent(JSString(id)))

\* The texts of the detail page for a missing route parameter and for the
\* rejection of getUploadedFileById (first words).
DetailErrors ==
  [noId |-> Str(<<"I", "D", " ", "d", "o", " ", "a", "r", "q", "u", "i", "v", "o">>),
   invalid |-> Str(<<"I", "n", "v", "a", "l", "i", "d", " ", "i", "d">>),
   fallback |-> Str(<<"E", "r", "r", "o", " ", "a", "o", " ", "c", "a", "r", "r", "e", "g", "a", "r">>)]

\* The effect of UploadedFileDetailsPage, which both detail routes render,
\* up to the request.
DetailLoad ==
  /\ detail.path # "none"
  /\ ~detail.loaded
  /\ LET id == Str(decodeURIComponent(detail.segment))
     IN IF ~Truthy(id)
        THEN detail' = [detail EXCEPT !.loaded = TRUE, !.error = DetailErrors.noId]
        ELSE detail' = [detail EXCEPT !.loaded = TRUE, !.request = getUploadedFileById(id),
                                      !.error = IF getUploadedFileById(id) = Undef
                                                THEN DetailErrors.invalid ELSE Null]
  /\ UNCHANGED <<route, viewer, selector, listar, form, row, upload, call, session, table, arquivoForm, normVars, decodeVars, periodVars,
               hookVars>>

\* err?.response?.data?.error || err?.response?.data?.message || err?.message
\* || fallback, as the detail page and the upload form read a failure.
failureMessage(err, fallback) ==
  IF Truthy(Get(err.data, K.error)) THEN Get(err.data, K.error)
  ELSE IF Truthy(Get(err.data, K.message)) THEN Get(err.data, K.message)
  ELSE IF Truthy(err.message) THEN err.message
  ELSE fallback

\* The answers a request of a page may get: a response with a body, or one
\* of the failures of HookErrors.
Answers ==
  {[ok |-> TRUE, data |-> RecA, message |-> Undef]}
    \cup {[ok |-> FALSE, data |-> e.data, message |-> e.message] : e \in HookErrors}

\* The request of the detail page is answered: setFile(resp?.data ?? null),
\* or the catch block.
DetailAnswer ==
  /\ detail.request # Undef
  /\ detail.answer = Undef
  /\ \E resp \in Answers :
       detail' = IF resp.ok
                 THEN [detail EXCEPT !.file = Coalesce(resp.data, Null), !.answer = resp]
                 ELSE [detail EXCEPT !.file = Null, !.answer = resp,
                                     !.error = Str(JSString(failureMessage(resp, DetailErrors.fallback)))]
  /\ UNCHANGED <<route, viewer, selector, listar, form, row, upload, call, session, table, arquivoForm, normVars, decodeVars, periodVars,
                 hookVars>>

\* The effect on [id] of a detail page v: the cleanup of the previous run
\* sets its mounted flag to false, then the route parameter is checked and
\* the request is sent.
runEffect(v) ==
  LET cleaned == [v EXCEPT !.requests = {[r EXCEPT !.live = FALSE] : r \in @}]
  IN IF ~Truthy(v.id)
     THEN IF v.component = "ArquivoDetailPage"
          THEN [cleaned EXCEPT !.error = DetailErrors.noId, !.errorOf = v.id, !.loading = FALSE]
          ELSE [cleaned EXCEPT !.error = DetailErrors.noId, !.errorOf = v.id,
                               !.file = Null, !.fileOf = v.id]
     ELSE [cleaned EXCEPT !.loading = TRUE, !.error = Null, !.sent = @ + 1,
                          !.requests = @ \cup {[n |-> v.sent + 1, id |-> v.id, live |-> TRUE]}]

\* A detail page that lets every settled request through.
stillMounted_Always(r) == TRUE

\* if (!mounted) return / if (mounted) ...: the flag of the effect run that
\* sent the request r.
stillMounted(r) == r.live

\* The route parameter changes while the page stays mounted: the effect runs
\* again.
ViewerRoute ==
  /\ route = "details"
  /\ viewer.mounted
  /\ viewer.sent < MaxReq
  /\ \E id \in {Undef, Str(<<"a">>), Str(<<"b">>)} :
       /\ id # viewer.id
       /\ viewer' = [runEffect([viewer EXCEPT !.id = id]) EXCEPT !.last = "route"]
  /\ UNCHANGED <<route, selector, listar, form, row, detail, upload, call, session, table,
                 arquivoForm, normVars, decodeVars, periodVars, hookVars>>

\* The page is left: the cleanup of the effect runs.
ViewerUnmount ==
  /\ route = "details"
  /\ viewer.mounted
  /\ viewer' = [viewer EXCEPT !.mounted = FALSE, !.last = "unmount",
                              !.requests = {[r EXCEPT !.live = FALSE] : r \in @}]
  /\ UNCHANGED <<route, selector, listar, form, row, detail, upload, call, session, table,
                 arquivoForm, normVars, decodeVars, periodVars, hookVars>>

\* A request of a detail page settles: the record of its id (or nothing), or
\* a failure.  UploadedFileDetailsPage: setFile(resp?.data ?? null), or
\* setError and setFile(null).  ArquivoDetailPage: setArquivo(dto ?? null),
\* or setError with the message of the Error, the thrown string or the
\* default text.  Both: setLoading(false), each under the mounted flag.
ViewerAnswer ==
  /\ route = "details"
  /\ \E r \in viewer.requests, ok \in BOOLEAN, found \in BOOLEAN,
        err \in {[data |-> e.data, message |-> e.message, thrown |-> Undef] : e \in HookErrors}
                  \cup {[data |-> Undef, message |-> Undef, thrown |-> Str(<<"s">>)]} :
       LET settled0 == [viewer EXCEPT !.requests = @ \ {r},
                                      !.last = IF r.live THEN "answer" ELSE "stale"]
           msg == IF viewer.component = "ArquivoDetailPage"
                  THEN (IF err.thrown # Undef THEN err.thrown
                        ELSE IF err.message # Undef THEN err.message
                        ELSE DetailErrors.fallback)
                  ELSE failureMessage(err, DetailErrors.fallback)
       IN /\ ok => err.thrown = Undef /\ err.message = Undef
          /\ ~ok => ~found
          /\ viewer' =
               IF ~stillMounted(r) THEN settled0
               ELSE IF ok
               THEN [settled0 EXCEPT !.file = IF found THEN r.id ELSE Null, !.fileOf = r.id,
                                     !.loading = FALSE]
               ELSE IF viewer.component = "ArquivoDetailPage"
               THEN [settled0 EXCEPT !.error = Str(JSString(msg)), !.errorOf = r.id,
                                     !.loading = FALSE]
               ELSE [settled0 EXCEPT !.error = Str(JSString(msg)), !.errorOf = r.id,
                                     !.file = Null, !.fileOf = r.id, !.loading = FALSE]
  /\ UNCHANGED <<route, selector, listar, form, row, detail, upload, call, session, table,
                 arquivoForm, normVars, decodeVars, periodVars, hookVars>>

\* A createUploadedFile that posts whatever it is given.
createUploadedFile_NoGuard(formData) == formData

\* createUploadedFile: the body of the POST /arquivos it issues, or undefined
\* when it rejects without a request.
createUploadedFile(formData) ==
  IF formData.t # "FormData" THEN Undef ELSE formData

UploadTexts ==
  [noFile |-> Str(<<"S", "e", "l", "e", "c", "i", "o", "n", "e">>),
   sent |-> Str(<<"A", "r", "q", "u", "i", "v", "o", " ", "e", "n", "v", "i", "a", "d", "o">>),
   fallback |-> Str(<<"E", "r", "r", "o", " ", "a", "o", " ", "e", "n", "v", "i", "a", "r">>)]

\* UploadFileForm.handleSubmit up to its await.
UploadSubmit ==
  /\ route \in {"uploaded", "uploadForm"}
  /\ ~upload.loading
  /\ upload.attempts < (IF route = "uploadForm" THEN MaxSubmit ELSE 1)
  /\ IF ~Truthy(upload.file)
     THEN upload' = [upload EXCEPT !.successMessage = Null, !.errorMessage = UploadTexts.noFile,
                                   !.posted = Undef, !.answer = Undef, !.attempts = @ + 1]
     ELSE LET keys == <<K.file>> \o (IF upload.origem # <<>> THEN <<K.origem>> ELSE <<>>)
                        \o (IF upload.descricao # <<>> THEN <<K.descricao>> ELSE <<>>)
              kids == <<upload.file>> \o (IF upload.origem # <<>> THEN <<Str(upload.origem)>> ELSE <<>>)
                        \o (IF upload.descricao # <<>> THEN <<Str(upload.descricao)>> ELSE <<>>)
              fd == JV("FormData", 0, <<>>, keys, kids)
          IN upload' = [upload EXCEPT !.successMessage = Null, !.errorMessage = Null,
                                      !.loading = TRUE, !.progress = Num(0),
                                      !.posted = createUploadedFile(fd), !.answer = Undef,
                                      !.attempts = @ + 1]
  /\ UNCHANGED <<route, viewer, selector, listar, form, row, detail, call, session, table, arquivoForm, normVars, decodeVars, periodVars,
                 hookVars>>

\* The upload is answered: the rest of the try block, with onSuccess (the
\* page reloads the list), or the catch block; then finally.
UploadAnswer ==
  /\ upload.loading
  /\ ~effectPending
  /\ \E resp \in Answers :
       IF resp.ok
       THEN /\ upload' = [upload EXCEPT !.successMessage = UploadTexts.sent, !.errorMessage = Null,
                                        !.file = Null, !.origem = <<>>, !.descricao = <<>>,
                                        !.progress = Null, !.loading = FALSE, !.answer = resp,
                                        !.onSuccess = @ + 1]
            /\ fetchList(page, pageSize, filters)
            /\ UNCHANGED <<items, total, page, pageSize, filters, effectPending>>
            /\ UNCHANGED <<route, viewer, selector, listar, form, row, detail, call, session, table, arquivoForm>>
       ELSE /\ upload' = [upload EXCEPT !.errorMessage =
                                          Str(JSString(failureMessage(resp, UploadTexts.fallback))),
                                        !.successMessage = Null, !.loading = FALSE, !.answer = resp]
            /\ UNCHANGED <<route, viewer, selector, listar, form, row, detail, call, session, table, arquivoForm, normVars, decodeVars,
                           periodVars, hookVars>>

\* handleFileChange: a file is chosen, or the choice is emptied.
handleFileChange ==
  /\ route = "uploadForm"
  /\ \E f \in {Null, Obj(<<>>, <<>>)} :
       upload' = [upload EXCEPT !.successMessage = Null, !.errorMessage = Null, !.progress = Null,
                                !.file = f, !.answer = Undef]
  /\ upload' # upload
  /\ UNCHANGED <<route, viewer, selector, listar, form, row, detail, call, session, table,
                 arquivoForm, normVars, decodeVars, periodVars, hookVars>>

\* onUploadProgress while the upload is on its way: setProgress(pct).
UploadProgress ==
  /\ route = "uploadForm"
  /\ upload.loading
  /\ \E pct \in {50, 100} :
       /\ upload.progress # Num(pct)
       /\ upload' = [upload EXCEPT !.progress = Num(pct)]
  /\ UNCHANGED <<route, viewer, selector, listar, form, row, detail, call, session, table,
                 arquivoForm, normVars, decodeVars, periodVars, hookVars>>

\* Limpar, which is not disabled while loading.
UploadLimpar ==
  /\ route = "uploadForm"
  /\ upload' = [upload EXCEPT !.file = Null, !.origem = <<>>, !.descricao = <<>>,
                              !.progress = Null, !.errorMessage = Null, !.successMessage = Null,
                              !.answer = Undef]
  /\ upload' # upload
  /\ UNCHANGED <<route, viewer, selector, listar, form, row, detail, call, session, table,
                 arquivoForm, normVars, decodeVars, periodVars, hookVars>>

\* A caller other than the pages calls getUploadedFileById or
\* createUploadedFile with the argument it has.
ServiceCall ==
  /\ route = "service"
  /\ ~call.done
  /\ call' = [call EXCEPT !.done = TRUE,
                          !.request = IF call.fn = "createUploadedFile"
                                      THEN createUploadedFile(call.arg)
                                      ELSE getUploadedFileById(call.arg)]
  /\ UNCHANGED <<route, viewer, selector, listar, form, row, detail, upload, session, table, arquivoForm, normVars, decodeVars, periodVars,
                 hookVars>>

\* The users a login may store: menus that grant or deny under each key and
\* value the hook reads, and users without a usable menu.
SessionUsers ==
  {Obj(<<K.menu>>, <<Obj(<<K.enviarArquivos>>, <<g>>)>>) :
     g \in {Bool(TRUE), Bool(FALSE), Str(<<"t", "r", "u", "e">>), Str(<<"T", "R", "U", "E">>),
            Str(<<"1">>), Str(<<"f", "a", "l", "s", "e">>), Str(<<>>), Num(1), Num(0), Null,
            Obj(<<>>, <<>>)}}
    \cup {Obj(<<K.menu>>, <<Obj(<<K.isEnviarArquivos>>, <<Bool(TRUE)>>)>>),
          Obj(<<K.menu>>, <<Obj(<<K.enviarArquivos, K.enviar_arquivos>>, <<Null, Num(1)>>)>>),
          Obj(<<K.menu>>, <<Obj(<<K.enviarArquivos, K.isEnviarArquivos>>, <<Bool(FALSE), Bool(TRUE)>>)>>),
          Obj(<<K.menu>>, <<Str(<<"x">>)>>), Obj(<<K.menu>>, <<Arr(<<>>)>>), Obj(<<K.menu>>, <<Null>>),
          Obj(<<K.nome>>, <<Str(<<"n">>)>>)}

\* parseJSONSafe: null for no text, the value the JSON text stands for, or
\* the text itself when it is not JSON.
parseJSONSafe(value) ==
  LET parsed == {v \in SessionUsers \cup {Null, Num(0), Bool(FALSE), Str(<<"a">>)} :
                   JSONStringify(v) = value.s}
  IN IF ~Truthy(value) THEN Null
     ELSE IF parsed # {} THEN CHOOSE v \in parsed : TRUE
     ELSE value

menu ==
  LET maybeMenu == Coalesce(Get(session.user, K.menu), Null)
  IN IF ~Truthy(session.user) THEN Null
     ELSE IF Truthy(maybeMenu) /\ IsObjectLike(maybeMenu) THEN maybeMenu
     ELSE Null

isAuthenticated == Truthy(session.loginValue)

\* A canSendFiles that accepts only the boolean true.
canSendFiles_BooleanOnly ==
  menu # Null /\ Get(menu, K.enviarArquivos) = Bool(TRUE)

canSendFiles ==
  LET v == Coalesce(Coalesce(Get(menu, K.enviarArquivos), Get(menu, K.isEnviarArquivos)),
                    Get(menu, K.enviar_arquivos))
  IN IF menu = Null THEN FALSE
     ELSE IF v.t = "boolean" THEN v.n = 1
     ELSE IF v.t = "string" THEN ToLowerCase(v.s) = <<"t", "r", "u", "e">> \/ v.s = <<"1">>
     ELSE IF v.t = "number" THEN v.n = 1
     ELSE FALSE

shouldRedirectToLogin == ~Truthy(session.user) \/ ~isAuthenticated \/ ~canSendFiles

\* readFromStorages(key) on the storages of s: the text of sessionStorage
\* when there is one, else the one of localStorage.
readFromStorages(s, key) ==
  IF ~IsNullish(s.sessionStorage[key]) THEN s.sessionStorage[key] ELSE s.localStorage[key]

\* setSession(usuario, loginFlag, useSessionStorage): both texts are written
\* to the chosen storage and the state takes the values given.
SetSession ==
  /\ route = "session"
  /\ \E usuario \in {Obj(<<K.menu>>, <<Obj(<<K.enviarArquivos>>, <<g>>)>>) : g \in {Bool(TRUE), Num(0)}},
        loginFlag \in {Str(<<"t", "r", "u", "e">>), Str(<<>>)},
        useSessionStorage \in BOOLEAN :
       LET written == [informacoesusuario |-> Str(JSONStringify(usuario)),
                       login |-> Str(JSString(loginFlag))]
       IN session' = Session(IF useSessionStorage THEN written ELSE session.sessionStorage,
                             IF useSessionStorage THEN session.localStorage ELSE written,
                             usuario, Str(JSString(loginFlag)))
  /\ UNCHANGED <<route, viewer, selector, listar, form, row, detail, upload, call, table, arquivoForm, normVars, decodeVars,
                 periodVars, hookVars>>

ClearSession ==
  /\ route = "session"
  /\ session' = Session(NoItems, NoItems, Null, Null)
  /\ UNCHANGED <<route, viewer, selector, listar, form, row, detail, upload, call, table, arquivoForm, normVars, decodeVars,
                 periodVars, hookVars>>

\* Another document changes a storage and the "storage" event reaches
\* onStorage: a clear (no key), or a new value (null when removed) under one
\* key.
OnStorage ==
  /\ route = "session"
  /\ \E area \in {"sessionStorage", "localStorage"}, key \in {"", "informacoesusuario", "login"},
        newValue \in {Null, Str(<<"x">>),
                      Str(JSONStringify(Obj(<<K.menu>>, <<Obj(<<K.enviarArquivos>>, <<Num(1)>>)>>)))} :
       LET changed == [session EXCEPT ![area] = IF key = "" THEN NoItems
                                                ELSE [@ EXCEPT ![key] = newValue]]
       IN /\ key = "" => newValue = Null
          /\ session' =
               IF key = ""
               THEN [changed EXCEPT !.user = parseJSONSafe(readFromStorages(changed, "informacoesusuario")),
                                    !.loginValue = readFromStorages(changed, "login")]
               ELSE IF key = "informacoesusuario"
                    THEN [changed EXCEPT !.user = parseJSONSafe(Coalesce(newValue,
                                                    readFromStorages(changed, "informacoesusuario")))]
                    ELSE [changed EXCEPT !.loginValue = Coalesce(newValue,
                                                          readFromStorages(changed, "login"))]
  /\ UNCHANGED <<route, viewer, selector, listar, form, row, detail, upload, call, table, arquivoForm, normVars, decodeVars,
                 periodVars, hookVars>>

\* resetForm applied to the form f.
resetForm(f) ==
  [f EXCEPT !.nomearquivo = <<>>, !.counters = [k \in DOMAIN f.counters |-> <<"0">>],
            !.fieldErrors = {}, !.errorMessage = Null, !.successMessage = Null]

\* The user types a name or a number of records.
ArquivoChange ==
  /\ route = "arquivoForm"
  /\ \/ \E text \in {<<>>, <<" ">>, <<"a">>, <<"a", "b">>, <<" ", "a", "b", " ">>} :
          /\ text # arquivoForm.nomearquivo
          /\ arquivoForm' = [arquivoForm EXCEPT !.nomearquivo = text, !.last = "change"]
     \/ \E text \in {<<>>, <<"0">>, <<"7">>, <<"-", "3">>, <<"x">>} :
          /\ text # arquivoForm.counters.quantidaderegistro
          /\ arquivoForm' = [arquivoForm EXCEPT !.counters.quantidaderegistro = text,
                                                !.last = "change"]
  /\ UNCHANGED <<route, viewer, selector, listar, form, row, detail, upload, call, session, table,
                 normVars, decodeVars, periodVars, hookVars>>

\* handleSubmit up to the await: the messages are cleared, validate() sets
\* the field errors, and a valid form posts its payload.  The submit button
\* is disabled while loading.
ArquivoSubmit ==
  /\ route = "arquivoForm"
  /\ ~arquivoForm.loading
  /\ Len(arquivoForm.onCreated) < MaxReq
  /\ LET f == arquivoForm
         nonBlank == {i \in 1..Len(f.nomearquivo) : f.nomearquivo[i] # " "}
         trimmed == IF nonBlank = {} THEN <<>>
                    ELSE SubSeq(f.nomearquivo,
                                CHOOSE i \in nonBlank : \A j \in nonBlank : i <= j,
                                CHOOSE i \in nonBlank : \A j \in nonBlank : i >= j)
         parseNonNegInt(v) ==
           IF v = <<>> THEN Num(0)
           ELSE IF JSNumber(v).t # "number" THEN NaN
           ELSE IF JSNumber(v).n > 0 THEN JSNumber(v) ELSE Num(0)
         errs == (IF Len(trimmed) < 2 THEN {"nomearquivo"} ELSE {})
                   \cup {k \in DOMAIN f.counters : parseNonNegInt(f.counters[k]) = NaN}
         payload == [nomearquivo |-> trimmed,
                     counters |-> [k \in DOMAIN f.counters |-> parseNonNegInt(f.counters[k])]]
     IN arquivoForm' =
          IF errs # {}
          THEN [f EXCEPT !.successMessage = Null, !.errorMessage = Null, !.fieldErrors = errs,
                         !.last = "submit"]
          ELSE [f EXCEPT !.successMessage = Null, !.errorMessage = Null, !.fieldErrors = {},
                         !.loading = TRUE, !.request = payload, !.last = "submit"]
  /\ UNCHANGED <<route, viewer, selector, listar, form, row, detail, upload, call, session, table,
                 normVars, decodeVars, periodVars, hookVars>>

\* createArquivo(payload) settles.  Resolved: the success message is set,
\* onCreated is called with the created DTO and, with clearOnSuccess,
\* resetForm() runs in the same handler.  Rejected: the message of an Error,
\* a thrown string, or the default text.  finally: loading is false.
ArquivoAnswer ==
  /\ route = "arquivoForm"
  /\ arquivoForm.request # Undef
  /\ \E outcome \in {[ok |-> TRUE, value |-> RecA],
                     [ok |-> FALSE, value |-> [isError |-> TRUE, message |-> Str(<<"m">>)]],
                     [ok |-> FALSE, value |-> Str(<<"s">>)],
                     [ok |-> FALSE, value |-> Obj(<<>>, <<>>)]} :
       LET f == arquivoForm
           settled0 == [f EXCEPT !.request = Undef, !.loading = FALSE,
                                 !.last = IF outcome.ok THEN "created" ELSE "failed"]
           succeeded == [settled0 EXCEPT !.successMessage = Str(<<"A", "r", "q", "u", "i", "v", "o">>),
                                         !.errorMessage = Null,
                                         !.onCreated = Append(@, outcome.value)]
           msg == IF "isError" \in DOMAIN outcome.value THEN outcome.value.message
                  ELSE IF outcome.value.t = "string" THEN outcome.value
                  ELSE Str(<<"E", "r", "r", "o">>)
       IN arquivoForm' =
            IF outcome.ok
            THEN (IF f.clearOnSuccess THEN resetForm(succeeded) ELSE succeeded)
            ELSE [settled0 EXCEPT !.errorMessage = Str(JSString(msg)), !.successMessage = Null]
  /\ UNCHANGED <<route, viewer, selector, listar, form, row, detail, upload, call, session, table,
                 normVars, decodeVars, periodVars, hookVars>>

\* Limpar: resetForm(); the button is disabled while loading.
ArquivoLimpar ==
  /\ route = "arquivoForm"
  /\ ~arquivoForm.loading
  /\ arquivoForm' = [resetForm(arquivoForm) EXCEPT !.last = "limpar"]
  /\ UNCHANGED <<route, viewer, selector, listar, form, row, detail, upload, call, session, table,
                 normVars, decodeVars, periodVars, hookVars>>

\* clampPage of the FileTable with page and totalPages props.
clampPage(p, totalPages) ==
  IF p < 1 THEN 1
  ELSE IF p > totalPages THEN (IF totalPages = 0 THEN 1 ELSE totalPages)
  ELSE p

\* A getPageRange that centres the window without keeping it inside the
\* pages.
getPageRange_Unbounded(current, totalPages) ==
  LET safeTotal == IF totalPages > 1 THEN totalPages ELSE 1
      safeCurrent == clampPage(current, safeTotal)
  IN IF safeTotal <= 5 THEN [i \in 1..safeTotal |-> i]
     ELSE [i \in 1..5 |-> safeCurrent - 3 + i]

\* getPageRange(current, total) with MAX_PAGE_BUTTONS = 5.
getPageRange(current, totalPages) ==
  LET safeTotal == IF totalPages > 1 THEN totalPages ELSE 1
      safeCurrent == clampPage(current, safeTotal)
      half == 5 \div 2
      start == IF safeCurrent - half < 1 THEN 1
               ELSE IF safeCurrent + half > safeTotal THEN safeTotal - 5 + 1
               ELSE safeCurrent - half
      end == IF safeCurrent - half < 1 THEN 5
             ELSE IF safeCurrent + half > safeTotal THEN safeTotal
             ELSE safeCurrent + half
  IN IF safeTotal <= 5 THEN [i \in 1..safeTotal |-> i]
     ELSE [i \in 1..(end - start + 1) |-> start + i - 1]

\* The page window of the FileTable with currentPage, pageSize and
\* totalItems props (pageWindow = 5).
pages(safeCurrentPage, totalPages) ==
  LET half == 5 \div 2
      start0 == IF safeCurrentPage - half > 1 THEN safeCurrentPage - half ELSE 1
      end == IF totalPages < start0 + 5 - 1 THEN totalPages ELSE start0 + 5 - 1
      start == IF end - 5 + 1 > 1 THEN end - 5 + 1 ELSE 1
  IN [i \in 1..(end - start + 1) |-> start + i - 1]

\* A button of the pagination controls that is rendered and not disabled is
\* clicked; the page handed to onPageChange becomes the current page of the
\* parent (setCurrentPage, goToPage).
TableClick ==
  /\ route = "table"
  /\ LET ceil == (table.total + table.pageSize - 1) \div table.pageSize
         \* src/components/FileTable.tsx
         totalPages == IF ceil > 1 THEN ceil ELSE 1
         safeCurrentPage ==
           LET low == IF table.currentPage > 1 THEN table.currentPage ELSE 1
           IN IF low < totalPages THEN low ELSE totalPages
         window == pages(safeCurrentPage, totalPages)
         byProps ==
           (IF safeCurrentPage <= 1 THEN {} ELSE {[button |-> "prev", emits |-> <<safeCurrentPage - 1>>]})
             \cup (IF window[1] > 1 THEN {[button |-> "first", emits |-> <<1>>]} ELSE {})
             \cup {[button |-> "page", emits |-> <<window[i]>>] : i \in 1..Len(window)}
             \cup (IF window[Len(window)] < totalPages
                   THEN {[button |-> "last", emits |-> <<totalPages>>]} ELSE {})
             \cup (IF safeCurrentPage >= totalPages THEN {}
                   ELSE {[button |-> "next", emits |-> <<safeCurrentPage + 1>>]})
         \* src/components/FileTable/FileTable.tsx: totalPages is a prop
         safePage == clampPage(table.currentPage, ceil)
         pageRange == getPageRange(safePage, ceil)
         handleGoTo(p) == IF clampPage(p, ceil) # safePage THEN <<clampPage(p, ceil)>> ELSE <<>>
         byHandlers ==
           (IF safePage <= 1 THEN {}
            ELSE {[button |-> "prev", emits |-> IF safePage > 1 THEN <<safePage - 1>> ELSE <<>>]})
             \cup (IF pageRange[1] > 1 THEN {[button |-> "first", emits |-> handleGoTo(1)]} ELSE {})
             \cup {[button |-> "page", emits |-> handleGoTo(pageRange[i])] : i \in 1..Len(pageRange)}
             \cup (IF pageRange[Len(pageRange)] < ceil
                   THEN {[button |-> "last", emits |-> handleGoTo(ceil)]} ELSE {})
             \cup (IF safePage >= (IF ceil > 1 THEN ceil ELSE 1) THEN {}
                   ELSE {[button |-> "next",
                          emits |-> IF safePage < (IF ceil > 1 THEN ceil ELSE 1)
                                    THEN <<safePage + 1>> ELSE <<>>]})
     IN \E click \in (IF table.component = "FileTable" THEN byProps ELSE byHandlers) :
          table' = [table EXCEPT !.clicked = click.button, !.emitted = click.emits,
                                 !.from = table.currentPage,
                                 !.currentPage = IF click.emits = <<>> THEN @ ELSE click.emits[1]]
  /\ UNCHANGED <<route, viewer, selector, listar, form, row, detail, upload, call, session, arquivoForm,
                 normVars, decodeVars, periodVars, hookVars>>

\* The records a list may show: with and without identifier, under several
\* spellings of its key.
ListedRows ==
  [service |-> {}, session |-> {}, selector |-> {}, table |-> {}, arquivoForm |-> {},
   details |-> {}, uploadForm |-> {},
   listar |-> {RecA, Obj(<<K.id>>, <<Num(7)>>), Obj(<<K.CodigoArquivo>>, <<Str(<<"x", " ", "1">>)>>),
               Obj(<<K.codigo, K.id>>, <<Null, Num(3)>>), Obj(<<K.id>>, <<Str(<<>>)>>),
               Obj(<<K.codigo>>, <<Null>>), Num(7),
               Obj(<<K.id>>, <<Obj(<<K.toString>>, <<Num(1)>>)>>)},
   uploaded |-> {Obj(<<K.id, K.nomearquivo>>, <<Num(5), Str(<<"a">>)>>),
                 Obj(<<K.nomearquivo>>, <<Str(<<"a", " ", "b">>)>>),
                 Obj(<<K.id, K.nomearquivo>>, <<Null, Str(<<"a", "/", "b">>)>>),
                 Obj(<<>>, <<>>),
                 Obj(<<K.id, K.nomearquivo>>, <<Str(<<>>), Str(<<"a">>)>>),
                 Obj(<<K.id, K.nomearquivo>>, <<Num(0), Str(<<"a">>)>>),
                 Obj(<<K.id>>, <<Obj(<<K.toString>>, <<Num(1)>>)>>)}]

\* The dates PeriodSelector may be mounted with (initialStartIso and
\* initialEndIso may name any day of any month) and the values of the selects
\* of UploadedFilesPage ("" is the placeholder option).
InitPages ==
  /\ route \in {"listar", "uploaded", "service", "session", "selector", "table", "arquivoForm",
                "details", "uploadForm"}
  /\ IF route = "listar"
     THEN /\ selector \in [startYear : {1, 99, 999, 2023, 2024, 9999}, startMonth : {2, 4, 12},
                           startDay : {1, 28, 29, 30, 31},
                           endYear : {1, 99, 999, 2023, 2024, 9999}, endMonth : {2, 4, 12},
                           endDay : {1, 28, 29, 30, 31},
                           error : {Null}, clampPending : {TRUE}]
          /\ form = [inicialdia |-> <<>>, inicialmes |-> <<>>, inicialano |-> <<>>,
                     finaldia |-> <<>>, finalmes |-> <<>>, finalano |-> <<>>]
     ELSE /\ selector = IF route = "selector"
                       THEN [startYear |-> 2024, startMonth |-> 1, startDay |-> 31,
                             endYear |-> 2024, endMonth |-> 3, endDay |-> 1,
                             error |-> Null, clampPending |-> TRUE]
                       ELSE [startYear |-> 0, startMonth |-> 0, startDay |-> 0,
                             endYear |-> 0, endMonth |-> 0, endDay |-> 0,
                             error |-> Null, clampPending |-> FALSE]
          /\ form \in [inicialdia : {<<>>, pad2(1), pad2(29), pad2(31)},
                       inicialmes : {<<>>, pad2(2), pad2(4), pad2(12)},
                       inicialano : {<<>>, NumToStr(2023), NumToStr(2024)},
                       finaldia : {<<>>, pad2(1), pad2(29), pad2(31)},
                       finalmes : {<<>>, pad2(2), pad2(4), pad2(12)},
                       finalano : {<<>>, NumToStr(2023), NumToStr(2024)}]
          /\ route \in {"service", "session", "selector", "table", "arquivoForm", "details",
                        "uploadForm"} =>
               \A k \in DOMAIN form : form[k] = <<>>
  /\ listar = [loading |-> FALSE, error |-> Null, issued |-> 0, request |-> Undef,
               inflight |-> {}, arquivos |-> <<>>, outcome |-> Undef]
  \* no record is listed yet, or one is and the period is of one year
  /\ row \in {Undef} \cup ListedRows[route]
  /\ row # Undef => (selector.startYear \in {0, 2024} /\ selector.endYear \in {0, 2024}
                     /\ form.inicialano = <<>>)
  /\ detail = NoDetail
  \* the upload form is empty, or filled in while the list is and the selects are not
  /\ upload \in {UploadForm(f, o, d) : f \in {Null, Obj(<<>>, <<>>)}, o \in {<<>>, <<"o">>},
                                       d \in {<<>>, <<"d">>}}
  /\ upload # UploadForm(Null, <<>>, <<>>) =>
       (route \in {"uploaded", "uploadForm"} /\ row = Undef /\ form.inicialdia = <<>>
        /\ form.finaldia = <<>>)
  /\ IF route = "service"
     THEN call \in {ServiceCalled("getUploadedFileById", a) :
                      a \in {Undef, Null, Str(<<>>), Str(<<"a", " ", "b">>), Num(0), Num(7)}}
                   \cup {ServiceCalled("createUploadedFile", a) :
                           a \in {Undef, Null, Str(<<"f">>), Obj(<<K.file>>, <<Str(<<"f">>)>>),
                                  JV("FormData", 0, <<>>, <<K.file>>, <<Obj(<<>>, <<>>)>>)}}
     ELSE call = ServiceCalled("none", Undef)
  \* the hook mounts on what the storages hold
  /\ IF route = "session"
     THEN \E localUser \in {Null, Str(<<>>), Str(<<"a", "b", "c">>), Str(<<"n", "u", "l", "l">>), Str(<<"0">>)}
                              \cup {Str(JSONStringify(u)) : u \in SessionUsers},
             localLogin \in {Null, Str(<<>>), Str(<<"t", "r", "u", "e">>), Str(<<"x">>)},
             sessionItems \in {NoItems,
                               [informacoesusuario |-> Str(JSONStringify(Obj(<<K.nome>>, <<Str(<<"n">>)>>))),
                                login |-> Str(<<"t", "r", "u", "e">>)]} :
            LET stores == Session(sessionItems, [informacoesusuario |-> localUser, login |-> localLogin],
                                  Null, Null)
            IN session = [stores EXCEPT
                            !.user = Coalesce(parseJSONSafe(readFromStorages(stores, "informacoesusuario")),
                                              Null),
                            !.loginValue = readFromStorages(stores, "login")]
     ELSE session = Session(NoItems, NoItems, Null, Null)
  \* a table is rendered with any current page, below 1 and past the last too
  /\ IF route = "table"
     THEN table \in {FileTable(c, cp, sz, n) :
                       c \in {"FileTable", "FileTable/FileTable"}, cp \in (0 - 1)..(MaxPage + 10),
                       sz \in {1, 5}, n \in {0, 1, 5, 6, 7, 12, 31}}
     ELSE table = FileTable("none", 1, 1, 0)
  \* the form is mounted with either value of clearOnSuccess and initial values
  /\ IF route = "arquivoForm"
     THEN arquivoForm \in {ArquivoForm(c, n, q) :
                             c \in BOOLEAN, n \in {<<>>, <<"a", "b">>}, q \in {<<"0">>, <<"x">>}}
     ELSE arquivoForm = ArquivoForm(TRUE, <<>>, <<"0">>)
  \* a detail page has mounted and its effect has run
  /\ IF route = "details"
     THEN viewer \in {runEffect(Viewer(c, id)) :
                        c \in {"UploadedFileDetailsPage", "ArquivoDetailPage"},
                        id \in {Undef, Str(<<"a">>)}}
     ELSE viewer = Viewer("none", Undef)
  /\ HookMounted
  /\ NormIdle
  /\ DecodeIdle
  /\ PeriodIdle

NextPages ==
  \/ ClampDays
  \/ ListarAnswer
  \/ TableClick
  \/ ArquivoChange
  \/ ArquivoSubmit
  \/ ArquivoAnswer
  \/ ArquivoLimpar
  \/ handleFileChange
  \/ UploadProgress
  \/ UploadLimpar
  \/ ViewerRoute
  \/ ViewerUnmount
  \/ ViewerAnswer
  \/ Select
  \/ Reset
  \/ PeriodSubmit
  \/ UploadedFilesSubmit
  \/ RowClick
  \/ LinkClick
  \/ DetailLoad
  \/ DetailAnswer
  \/ UploadSubmit
  \/ UploadAnswer
  \/ ServiceCall
  \/ SetSession
  \/ ClearSession
  \/ OnStorage
  \/ (route \in {"uploaded", "uploadForm"} /\ FetchEffect)

SpecPages == InitPages /\ [][NextPages]_vars

(***************************************************************************)
(* Properties of the period forms (specification SpecPages).               *)
(***************************************************************************)
\* Day d of month m of year y exists in the calendar.
IsCalendarDate(y, m, d) ==
  /\ y >= 1
  /\ m \in 1..12
  /\ d >= 1
  /\ d <= (IF m = 2 THEN (IF y % 400 = 0 \/ (y % 4 = 0 /\ y % 100 # 0) THEN 29 ELSE 28)
           ELSE IF m \in {4, 6, 9, 11} THEN 30 ELSE 31)

\* The texts of a year, a month and a day name a day of the calendar.
TextsAreCalendarDate(ano, mes, dia) ==
  /\ ParseInt(ano).t = "number" /\ ParseInt(mes).t = "number" /\ ParseInt(dia).t = "number"
  /\ IsCalendarDate(ParseInt(ano).n, ParseInt(mes).n, ParseInt(dia).n)

\* A date parameter of a list request is absent or names a day of the calendar.
DateParamIsReal(v) ==
  v.t = "string" =>
    /\ Len(Split(v.s)) = 3
    /\ TextsAreCalendarDate(Split(v.s)[1], Split(v.s)[2], Split(v.s)[3])

\* The query parameters of the list requests of useUploadedFiles in flight.
QueriesInFlight ==
  {listUploadedFiles(query(r.filters, r.page, r.pageSize)) : r \in inflight}

\* C11: through no period form (PeriodSelector, or the day/month/year selects
\* of the UploadedFiles page) is a list request issued whose start or end date
\* is not a real calendar date.
C11_NoImpossibleDateRequested ==
  /\ listar.request # Undef =>
       /\ TextsAreCalendarDate(Get(listar.request, K.inicialano).s,
                               Get(listar.request, K.inicialmes).s,
                               Get(listar.request, K.inicialdia).s)
       /\ TextsAreCalendarDate(Get(listar.request, K.finalano).s,
                               Get(listar.request, K.finalmes).s,
                               Get(listar.request, K.finaldia).s)
  /\ \A q \in QueriesInFlight :
       DateParamIsReal(Get(q, K.startDate)) /\ DateParamIsReal(Get(q, K.endDate))

\* The requests PeriodSelector lets through name real calendar dates.
C11_SelectorRequestsRealDates ==
  listar.request # Undef =>
    /\ TextsAreCalendarDate(Get(listar.request, K.inicialano).s,
                            Get(listar.request, K.inicialmes).s,
                            Get(listar.request, K.inicialdia).s)
    /\ TextsAreCalendarDate(Get(listar.request, K.finalano).s,
                            Get(listar.request, K.finalmes).s,
                            Get(listar.request, K.finaldia).s)

\* The position in time of the day the three texts name.
DayOrdinal(ano, mes, dia) ==
  (ParseInt(ano).n * 12 + ParseInt(mes).n) * 31 + ParseInt(dia).n

\* The two date parameters of a query, when both are present, are in order.
DateParamsInOrder(startDate, endDate) ==
  (startDate.t = "string" /\ endDate.t = "string") =>
    DayOrdinal(Split(startDate.s)[1], Split(startDate.s)[2], Split(startDate.s)[3])
      <= DayOrdinal(Split(endDate.s)[1], Split(endDate.s)[2], Split(endDate.s)[3])

\* C12: a period whose start date is after its end date is rejected before
\* any list request is issued, whether it is entered through PeriodSelector
\* or through the day/month/year selects feeding handleFilterSubmit.
C12_NoReversedPeriodRequested ==
  /\ listar.request # Undef =>
       DayOrdinal(Get(listar.request, K.inicialano).s, Get(listar.request, K.inicialmes).s,
                  Get(listar.request, K.inicialdia).s)
         <= DayOrdinal(Get(listar.request, K.finalano).s, Get(listar.request, K.finalmes).s,
                       Get(listar.request, K.finaldia).s)
  /\ \A q \in QueriesInFlight : DateParamsInOrder(Get(q, K.startDate), Get(q, K.endDate))

\* The dates shown by PeriodSelector are days of the calendar, in order.
SelectorShowsValidPeriod ==
  /\ route = "listar"
  /\ ~selector.clampPending
  /\ IsCalendarDate(selector.startYear, selector.startMonth, selector.startDay)
  /\ IsCalendarDate(selector.endYear, selector.endMonth, selector.endDay)
  /\ (selector.startYear * 12 + selector.startMonth) * 31 + selector.startDay
       <= (selector.endYear * 12 + selector.endMonth) * 31 + selector.endDay

\* C13: for every real calendar date of the years 1 to 9999 isValidDate is
\* true, and the submit of PeriodSelector never rejects a valid period: it
\* sets no error and emits the corresponding range.
C13_ValidDatesAccepted ==
  SelectorShowsValidPeriod =>
    /\ isValidDate(selector.startYear, selector.startMonth, selector.startDay)
    /\ isValidDate(selector.endYear, selector.endMonth, selector.endDay)
    /\ selector.error = Null
    /\ listar.issued > 0 =>
         listar.request =
           Obj(<<K.inicialdia, K.inicialmes, K.inicialano, K.finaldia, K.finalmes, K.finalano>>,
               <<Str(TwoDigits(selector.startDay)), Str(TwoDigits(selector.startMonth)),
                 Str(NumToStr(selector.startYear)),
                 Str(TwoDigits(selector.endDay)), Str(TwoDigits(selector.endMonth)),
                 Str(NumToStr(selector.endYear))>>)

\* From the year 1000 on valid dates are accepted.
C13_ValidDatesAcceptedFrom1000 ==
  (SelectorShowsValidPeriod /\ selector.startYear >= 1000 /\ selector.endYear >= 1000) =>
    /\ isValidDate(selector.startYear, selector.startMonth, selector.startDay)
    /\ isValidDate(selector.endYear, selector.endMonth, selector.endDay)
    /\ selector.error = Null

\* A text of two digits without its leading zero.
Unpadded(t) == IF Len(t) = 2 /\ t[1] = "0" THEN <<t[2]>> ELSE t

\* The legacy filters of a list request, as they are and with day and month
\* written without leading zero.
LegacyVariants(f) ==
  {f, Obj(f.keys, [i \in 1..Len(f.keys) |->
                     IF f.keys[i] \in {K.inicialdia, K.inicialmes, K.finaldia, K.finalmes}
                     THEN Str(Unpadded(f.kids[i].s)) ELSE f.kids[i]])}

\* The ISO text of the date three legacy texts name: year, month and day of
\* two digits.
IsoOfLegacy(ano, mes, dia) ==
  ano \o <<"-">> \o TwoDigits(ParseInt(mes).n) \o <<"-">> \o TwoDigits(ParseInt(dia).n)

\* The same period and page as ISO parameters.
IsoParams(f, pg, sz) ==
  Obj(<<K.startDate, K.endDate, K.page, K.pageSize>>,
      <<Str(IsoOfLegacy(Get(f, K.inicialano).s, Get(f, K.inicialmes).s, Get(f, K.inicialdia).s)),
        Str(IsoOfLegacy(Get(f, K.finalano).s, Get(f, K.finalmes).s, Get(f, K.finaldia).s)),
        Num(pg), Num(sz)>>)

\* The request carries the six legacy fields.
IsLegacyRange(r) == r.filters.t = "object" /\ Len(r.filters.keys) = 6

\* C14: listUploadedFiles called with the six legacy fields plus page and
\* pageSize issues a query with the same startDate, endDate, page and pageSize
\* as when it is called with the equivalent ISO startDate and endDate and the
\* same page and pageSize.
C14_LegacyAndIsoQueriesAgree ==
  \A r \in inflight :
    IsLegacyRange(r) =>
      \A f \in LegacyVariants(r.filters) :
        \A k \in {K.startDate, K.endDate, K.page, K.pageSize} :
          Get(listUploadedFiles(query(f, r.page, r.pageSize)), k)
            = Get(listUploadedFiles(IsoParams(f, r.page, r.pageSize)), k)

\* A list request with the six legacy fields, the start before the end, is
\* in flight and its query carries both dates.
C14_Witness ==
  \E r \in inflight :
    /\ IsLegacyRange(r)
    /\ Get(r.filters, K.inicialdia) # Get(r.filters, K.finaldia)
    /\ Get(r.filters, K.inicialano) # Get(r.filters, K.finalano)
    /\ Get(listUploadedFiles(query(r.filters, r.page, r.pageSize)), K.startDate).t = "string"
    /\ Get(listUploadedFiles(query(r.filters, r.page, r.pageSize)), K.endDate).t = "string"
    /\ Get(listUploadedFiles(query(r.filters, r.page, r.pageSize)), K.page) = Num(1)

(***************************************************************************)
(* Properties of the detail navigation (specification SpecPages).          *)
(***************************************************************************)
\* The listed record carries no identifier: on ListarArquivos no candidate
\* key, in any spelling, has a value; on UploadedFilesPage "id" is absent or
\* null.
RowLacksIdentifier ==
  /\ row # Undef
  /\ IF route = "listar"
     THEN \A i \in 1..Len(ObjectKeys(row)) :
            (\E j \in 1..Len(candidateKeys) :
               ToLowerCase(ObjectKeys(row)[i]) = ToLowerCase(candidateKeys[j]))
            => IsNullish(row.kids[i])
     ELSE IsNullish(Get(row, K.id))

\* C15: a record without identifier never leads to a detail route nor to a
\* detail request, from the row click of ListarArquivos and from the
\* file-name link of UploadedFilesPage alike.
C15_NoDetailWithoutIdentifier ==
  RowLacksIdentifier => (detail.path = "none" /\ detail.request = Undef)

\* The row click of ListarArquivos alone keeps it: without identifier it
\* alerts and stays on the list.
C15_RowClickNeedsIdentifier ==
  (route = "listar" /\ RowLacksIdentifier) => (detail.path = "none" /\ detail.request = Undef)

C15_RowClickAlerted == route = "listar" /\ RowLacksIdentifier /\ detail.alerted

(***************************************************************************)
(* Properties of the hook's requests (specification SpecHook).             *)
(***************************************************************************)
\* C16: each user action on the list (filter submit, go to page, next,
\* previous, page-size change, clear filters, reload) causes a single list
\* request: the step of the action sends its request and leaves no effect
\* to run that sends a second one.
C16_SingleRequestPerAction ==
  [][(~effectPending /\ issued' = issued + 1) => ~effectPending']_vars

\* Reload, which changes no state of the hook, does send a single request.
C16_ReloadSendsOne ==
  [][(~effectPending /\ issued' = issued + 1 /\ page' = page /\ pageSize' = pageSize
        /\ filters' = filters) => ~effectPending']_vars

\* C17: the response of a superseded request never determines items, total,
\* page and pageSize: a response is applied only when its request is the
\* most recently issued one, so that the state at rest is that of the latest
\* request.
C17_SupersededResponsesDiscarded ==
  settled.state = "fulfilled" => settled.req.id = issued

(***************************************************************************)
(* Properties of the failure texts (specifications SpecHook and SpecPages). *)
(***************************************************************************)
RECURSIVE FirstTruthy(_)
FirstTruthy(values) ==
  IF Len(values) = 1 \/ Truthy(Head(values)) THEN Head(values) ELSE FirstTruthy(Tail(values))

\* The text of a failure read in the documented order: the "error" of the
\* body, then the "message" of the body, then the message of the exception,
\* then the default of the place.
DocumentedFailureText(failure, fallback) ==
  Str(JSString(FirstTruthy(<<Get(failure.data, K.error), Get(failure.data, K.message),
                             failure.message, fallback>>)))

DetailPageFailureInOrder ==
  (detail.answer # Undef /\ ~detail.answer.ok)
    => detail.error = DocumentedFailureText(detail.answer, DetailErrors.fallback)

UploadFormFailureInOrder ==
  (upload.answer # Undef /\ ~upload.answer.ok)
    => upload.errorMessage = DocumentedFailureText(upload.answer, UploadTexts.fallback)

HookFailureInOrder ==
  settled.state = "rejected" => error = DocumentedFailureText(settled, Str(DefaultListError))

\* C18: every place that renders a request failure shows the text read in
\* the documented order: the detail page, the upload form and
\* useUploadedFiles alike.
C18_FailureTextInDocumentedOrder ==
  DetailPageFailureInOrder /\ UploadFormFailureInOrder /\ HookFailureInOrder

\* The detail page and the upload form do read the failure in that order.
C18_PagesReadFailureInOrder == DetailPageFailureInOrder /\ UploadFormFailureInOrder

C18_PagesShowBodyMessage ==
  /\ detail.answer # Undef
  /\ ~detail.answer.ok
  /\ ~Truthy(Get(detail.answer.data, K.error))
  /\ detail.error = Get(detail.answer.data, K.message)

(***************************************************************************)
(* Properties of the guards before a request (specification SpecPages).    *)
(***************************************************************************)
\* A submit of the upload form while no file is selected sets the error
\* text, posts nothing and leaves loading false.
SubmitWithoutFileIsRefused ==
  (~Truthy(upload.file) /\ upload'.attempts # upload.attempts)
    => (upload'.errorMessage = UploadTexts.noFile /\ upload'.posted = Undef /\ ~upload'.loading)

\* createUploadedFile called with something that is not a FormData, and
\* getUploadedFileById called with undefined, null or "", issue no request.
ServiceGuardsRejectWithoutRequest ==
  (call.done /\ (IF call.fn = "createUploadedFile" THEN call.arg.t # "FormData"
                 ELSE call.arg \in {Undef, Null, Str(<<>>)}))
    => call.request = Undef

\* C19: UploadFileForm.handleSubmit with no file selected sets an error,
\* issues no createUploadedFile request and leaves loading false;
\* createUploadedFile with a non-FormData argument and getUploadedFileById
\* with undefined, null or "" reject without a request.
C19_GuardsIssueNoRequest ==
  [][SubmitWithoutFileIsRefused]_vars /\ []ServiceGuardsRejectWithoutRequest

C19_Witness ==
  /\ route = "uploaded"
  /\ ~Truthy(upload.file)
  /\ upload.errorMessage = UploadTexts.noFile
  /\ upload.posted = Undef
  /\ ~upload.loading
  /\ issued > 0

(***************************************************************************)
(* Properties of the session guard (specification SpecPages).              *)
(***************************************************************************)
StoredUserAbsent == IsNullish(session.user)

LoginAbsentOrEmpty == ~Truthy(session.loginValue)

\* The menu of the stored user, when it has one.
UserMenu ==
  IF session.user.t = "object" /\ Get(session.user, K.menu).t \in {"object", "array"}
  THEN Get(session.user, K.menu) ELSE Obj(<<>>, <<>>)

\* The menu grants enviarArquivos with one of the listed values: the boolean
\* true, the string "true" or "1", or the number 1.
MenuGrantsAsListed ==
  Get(UserMenu, K.enviarArquivos)
    \in {Bool(TRUE), Str(<<"t", "r", "u", "e">>), Str(<<"1">>), Num(1)}

\* The grant as the hook reads it: the first of enviarArquivos,
\* isEnviarArquivos and enviar_arquivos that is not null, being the boolean
\* true, a string equal to "true" in any letter case or to "1", or the
\* number 1.
MenuGrantsUnderAnyKey ==
  LET present == SelectSeq(<<K.enviarArquivos, K.isEnviarArquivos, K.enviar_arquivos>>,
                           LAMBDA k : ~IsNullish(Get(UserMenu, k)))
      grant == IF present = <<>> THEN Null ELSE Get(UserMenu, Head(present))
  IN \/ grant \in {Bool(TRUE), Str(<<"1">>), Num(1)}
     \/ (grant.t = "string" /\ ToLowerCase(grant.s) = <<"t", "r", "u", "e">>)

\* A step that empties the storage, as clearSession does, ends in a state
\* that redirects.
ClearedSessionRedirects ==
  (session' # session /\ session'.sessionStorage = NoItems /\ session'.localStorage = NoItems)
    => shouldRedirectToLogin'

ListRequestFails == settled'.state = "rejected" /\ settled' # settled

C26_LoadingWhileInFlight == inflight # {} => loading

C21_StateEqualsFreshRead ==
  /\ session.user = Coalesce(parseJSONSafe(readFromStorages(session, "informacoesusuario")), Null)
  /\ session.loginValue = readFromStorages(session, "login")

\* With sessionStorage as the only storage written and changed, the state
\* does equal the fresh read.
C21_SessionStorageOnly ==
  session.localStorage = NoItems => C21_StateEqualsFreshRead

\* ---------------------------------------------------------------------
\* C24: pagination of the two FileTable components.

\* The number of pages of the table on screen, never below one.
LastPage ==
  LET ceil == (table.total + table.pageSize - 1) \div table.pageSize
  IN IF ceil > 1 THEN ceil ELSE 1

\* The current page brought into 1..LastPage.
ClampedCurrentPage ==
  IF table.currentPage < 1 THEN 1
  ELSE IF table.currentPage > LastPage THEN LastPage
  ELSE table.currentPage

\* The page buttons the table on screen renders.
PageWindow ==
  IF table.component = "FileTable"
  THEN pages(ClampedCurrentPage, LastPage)
  ELSE LET ceil == (table.total + table.pageSize - 1) \div table.pageSize
       IN getPageRange(clampPage(table.currentPage, ceil), ceil)

WindowIsWellFormed ==
  /\ Len(PageWindow) >= 1
  /\ Len(PageWindow) <= 5
  /\ \A i \in 1..Len(PageWindow) : PageWindow[i] \in 1..LastPage
  /\ \A i \in 1..(Len(PageWindow) - 1) : PageWindow[i + 1] = PageWindow[i] + 1
  /\ \E i \in 1..Len(PageWindow) : PageWindow[i] = ClampedCurrentPage

EmittedPageInRange ==
  \A i \in 1..Len(table.emitted) : table.emitted[i] \in 1..LastPage

\* Previous cannot be clicked on the first page nor Next on the last one,
\* where the page counted is the clamped current page before the click.
EdgeButtonsDisabled ==
  /\ table'.clicked = "prev" /\ table' # table =>
       ClampedCurrentPage > 1 /\ table'.emitted = <<ClampedCurrentPage - 1>>
  /\ table'.clicked = "next" /\ table' # table =>
       ClampedCurrentPage < LastPage /\ table'.emitted = <<ClampedCurrentPage + 1>>

\* C24: for every current page (below 1 and past the last page included),
\* every total >= 0 and page size >= 1, in both FileTable components: a page
\* handed to onPageChange lies in 1..totalPages, the window of page buttons
\* holds at most five consecutive pages inside 1..totalPages with the clamped
\* current page among them, and Previous / Next are disabled on the first /
\* last page.
C24_PagesStayInRange ==
  /\ [](route = "table" => WindowIsWellFormed /\ EmittedPageInRange)
  /\ [][route = "table" => EdgeButtonsDisabled]_vars

\* A table rendered with a current page past the last of more than five
\* pages had Previous clicked and handed the page before the last one to
\* onPageChange.
C24_Witness ==
  /\ route = "table"
  /\ table.component = "FileTable/FileTable"
  /\ table.from > LastPage
  /\ LastPage > 5
  /\ table.clicked = "prev"
  /\ table.emitted = <<LastPage - 1>>

\* ---------------------------------------------------------------------
\* C25: success feedback of ArquivoForm.

\* The step in which createArquivo resolves.
CreateResolves ==
  /\ route = "arquivoForm"
  /\ arquivoForm.request # Undef
  /\ arquivoForm'.request = Undef
  /\ arquivoForm'.last = "created"

SuccessFeedbackShown ==
  CreateResolves =>
    /\ Truthy(arquivoForm'.successMessage)
    /\ arquivoForm'.errorMessage = Null

SuccessFeedbackStays ==
  (/\ route = "arquivoForm"
   /\ Truthy(arquivoForm.successMessage)
   /\ arquivoForm' # arquivoForm
   /\ arquivoForm'.last \notin {"submit", "limpar"}) =>
    arquivoForm'.successMessage = arquivoForm.successMessage

OnCreatedOncePerCreate ==
  route = "arquivoForm" =>
    IF CreateResolves
    THEN \E dto \in {RecA} : arquivoForm'.onCreated = Append(arquivoForm.onCreated, dto)
    ELSE arquivoForm'.onCreated = arquivoForm.onCreated

\* C25: when arquivoService.create resolves, successMessage is set and
\* errorMessage is null, for both values of clearOnSuccess; the message stays
\* until the user submits again or presses Limpar; onCreated is invoked
\* exactly once with the created DTO.
C25_SuccessFeedbackAfterCreate ==
  [][SuccessFeedbackShown /\ SuccessFeedbackStays /\ OnCreatedOncePerCreate]_vars

\* What the form does: the same with the feedback required only of a form
\* that keeps its fields after a create (clearOnSuccess = false).
C25_FeedbackWhenNotCleared ==
  [][/\ (~arquivoForm.clearOnSuccess => SuccessFeedbackShown)
     /\ SuccessFeedbackStays
     /\ OnCreatedOncePerCreate]_vars

\* With clearOnSuccess a create resolved and onCreated was called, and the
\* form shows no message.
C25_CreatedAndCleared ==
  /\ route = "arquivoForm"
  /\ arquivoForm.clearOnSuccess
  /\ arquivoForm.last = "created"
  /\ Len(arquivoForm.onCreated) = 1
  /\ arquivoForm.successMessage = Null

\* ---------------------------------------------------------------------
\* C27: overlapping period submissions of ListarArquivos.

\* Every submission has been answered, and more than one was made.
SubmissionsCompleted ==
  /\ route = "listar"
  /\ listar.issued >= 2
  /\ listar.inflight = {}

\* C27: after overlapping period submissions have all completed, the page
\* shows the outcome of the most recently submitted period, whatever the
\* order of completion; error is non-null only if arquivos is empty, so a
\* failure of the older request never clears or hides the newer results.
C27_LatestPeriodShown ==
  /\ SubmissionsCompleted =>
       /\ listar.arquivos = listar.outcome.arquivos
       /\ listar.error = listar.outcome.error
       /\ ~listar.loading
  /\ route = "listar" /\ listar.error # Null => listar.arquivos = <<>>

\* The second submission found rows and the first one failed after it.
C27_OlderFailureHidesNewer ==
  /\ SubmissionsCompleted
  /\ listar.issued = 2
  /\ listar.outcome = [arquivos |-> <<2>>, error |-> Null]
  /\ listar.arquivos = <<>>
  /\ listar.error # Null

\* ---------------------------------------------------------------------
\* C28: stale answers on the detail pages.

\* What a detail page displays, in the order of its render: the loading
\* text, else the error, else the file (or that there is none).
Displayed(v) ==
  IF v.loading THEN [loading |-> TRUE, error |-> Null, file |-> Null]
  ELSE IF Truthy(v.error) THEN [loading |-> FALSE, error |-> v.error, file |-> Null]
  ELSE [loading |-> FALSE, error |-> Null, file |-> v.file]

\* A request of an earlier route id, or of a page that was left, settles.
StaleAnswerSettles ==
  /\ route = "details"
  /\ viewer'.requests # viewer.requests
  /\ \E r \in viewer.requests \ viewer'.requests :
       r.id # viewer.id \/ r.n # viewer.sent \/ ~viewer.mounted

StaleAnswerChangesNothing ==
  StaleAnswerSettles =>
    /\ viewer'.file = viewer.file
    /\ viewer'.error = viewer.error
    /\ viewer'.loading = viewer.loading

\* What is displayed once loading is false was set for the current id.
ShownBelongsToCurrentId ==
  (route = "details" /\ viewer.mounted /\ ~viewer.loading) =>
    IF Truthy(viewer.error) THEN viewer.errorOf = viewer.id ELSE viewer.fileOf = viewer.id

\* C28: on both detail pages a response or failure of a request started for
\* an earlier route id, or arriving after unmount, never changes the file,
\* the error or the loading state; after the id changes, what is shown once
\* loading is false belongs to the current id.
C28_StaleAnswersIgnored ==
  [][StaleAnswerChangesNothing]_vars /\ []ShownBelongsToCurrentId

\* The id changed from "a" to "b" with the request of "a" still awaited; the
\* answer for "b" came first, the answer for "a" after it, and the page
\* shows the record of "b".
C28_Witness ==
  /\ route = "details"
  /\ viewer.mounted
  /\ viewer.id = Str(<<"b">>)
  /\ viewer.last = "stale"
  /\ viewer.requests = {}
  /\ Displayed(viewer) = [loading |-> FALSE, error |-> Null, file |-> Str(<<"b">>)]

\* ---------------------------------------------------------------------
\* C29: feedback of UploadFileForm.

NeverBothMessages ==
  ~(upload.successMessage # Null /\ upload.errorMessage # Null)

\* The step in which an upload settles.
UploadSettles == upload.loading /\ ~upload'.loading

OnSuccessOncePerUpload ==
  upload'.onSuccess =
    IF UploadSettles /\ upload'.answer.ok THEN upload.onSuccess + 1 ELSE upload.onSuccess

\* An upload attempt has finished and none is on its way.
AttemptFinished == upload.answer # Undef /\ ~upload.loading

\* C29: after any sequence of file selections, submits (succeeding or
\* failing) and Limpar clicks, successMessage and errorMessage are never both
\* set; onSuccess is invoked exactly once per successful upload and never for
\* a failed one; and whenever loading is false after an upload attempt has
\* finished, progress is null.
C29_UploadFeedback ==
  /\ [](NeverBothMessages /\ (AttemptFinished => upload.progress = Null))
  /\ [][OnSuccessOncePerUpload]_vars

\* What the form does keep: the messages and the calls of onSuccess.
C29_MessagesAndCallback ==
  []NeverBothMessages /\ [][OnSuccessOncePerUpload]_vars

\* An upload failed after a progress event: the form is idle and the bar
\* still shows 50%.
C29_ProgressLeftAfterFailure ==
  /\ route = "uploadForm"
  /\ AttemptFinished
  /\ ~upload.answer.ok
  /\ upload.progress = Num(50)
  /\ upload.errorMessage # Null

====
